---------------------------- MODULE Spec2Model ----------------------------
(***************************************************************************)
(* GVT-g graphics memory virtualisation: the shadow page tables of         *)
(* drivers/gpu/drm/i915/gvt/gtt.c and the workload dispatch of             *)
(* drivers/gpu/drm/i915/gvt/scheduler.c.                                   *)
(*                                                                         *)
(* Every handler is one action.  A handler is computed by operators that   *)
(* take the device state as a record (the "world", w) and return the new   *)
(* world, following the C code statement by statement; the action commits  *)
(* the world the handler returns.                                          *)
(*                                                                         *)
(* Entry values are the 64-bit words of the code restricted to values      *)
(* below 2^31 (bit 0 present, bit 7 page size, frame number from bit 12).  *)
(***************************************************************************)
EXTENDS Integers, Sequences, FiniteSets, TLC

\* the value v under the name K gives it: a handler's local variable
Bind(v, K(_)) == K(v)

(***************************************************************************)
(* Bounds of the model.                                                    *)
(***************************************************************************)
\* vGPU ids
VGPUS == {1, 2}
\* guest frame numbers of each VM
GFNS == 0 .. 3
\* entry indices of one page-table page (512 in the code)
PtIdx == 0 .. 1
\* machine frames the shadow-page allocator can hand out
SptMfns == 8 .. 11
\* mm objects that can exist at a time
MmIds == 1 .. 3
\* entries of the GGTT range of one vGPU
GgttIdx == 0 .. 1
\* the entries of the device's global table (dev_priv->ggtt)
HostGgttIdx == 0 .. 9
\* consecutive failures of alloc_spt within one operation
MaxAllocFail == 2
\* number of preallocated OOS buffers (8192 by default in the code)
preallocated_oos_pages == 2

(***************************************************************************)
(* Entry codec.                                                            *)
(***************************************************************************)
PAGE_PRESENT == 1
PAGE_PSE == 128
GTT_PAGE_SIZE == 4096

\* an entry value with frame number pfn and flag bits fl
Ent(pfn, fl) == pfn * GTT_PAGE_SIZE + fl

Bit(v, b) == (v \div b) % 2 = 1

\* e->val64 & ADDR_xx_MASK >> 12, by entry type
gen8_gtt_get_pfn(type, v) ==
    IF type = "PTE_1G" THEN (v \div (2^30)) * (2^18)
    ELSE IF type = "PTE_2M" THEN (v \div (2^21)) * (2^9)
    ELSE v \div GTT_PAGE_SIZE

\* clear the frame bits of the type's mask and or in pfn, masked the same way
gen8_gtt_set_pfn(type, v, pfn) ==
    IF type = "PTE_1G"
      THEN (v % (2^30)) + ((pfn \div (2^18)) * (2^30))
    ELSE IF type = "PTE_2M"
      THEN (v % (2^21)) + ((pfn \div (2^9)) * (2^21))
    ELSE (v % GTT_PAGE_SIZE) + pfn * GTT_PAGE_SIZE

\* root pointers are present when non-zero, the others by bit 0
gen8_gtt_test_present(type, v) ==
    IF type \in {"ROOT_L3", "ROOT_L4"} THEN v # 0 ELSE Bit(v, PAGE_PRESENT)

\* gtt_type_table: <<entry_type, next_pt_type, pse_entry_type>>
gtt_type_table ==
    [t \in {"ROOT_L4", "PML4_PT", "PML4_E", "PDP_PT", "ROOT_L3", "PDP_E",
            "PDE_PT", "PDE_E", "PTE_PT", "PTE_4K", "PTE_2M", "PTE_1G",
            "GGTT_PTE"} |->
       CASE t = "ROOT_L4" -> <<"ROOT_L4", "PML4_PT", "INVALID">>
         [] t = "PML4_PT" -> <<"PML4_E", "PDP_PT", "INVALID">>
         [] t = "PML4_E"  -> <<"PML4_E", "PDP_PT", "INVALID">>
         [] t = "PDP_PT"  -> <<"PDP_E", "PDE_PT", "PTE_1G">>
         [] t = "ROOT_L3" -> <<"ROOT_L3", "PDE_PT", "PTE_1G">>
         [] t = "PDP_E"   -> <<"PDP_E", "PDE_PT", "PTE_1G">>
         [] t = "PDE_PT"  -> <<"PDE_E", "PTE_PT", "PTE_2M">>
         [] t = "PDE_E"   -> <<"PDE_E", "PTE_PT", "PTE_2M">>
         [] t = "PTE_PT"  -> <<"PTE_4K", "INVALID", "INVALID">>
         [] t = "PTE_4K"  -> <<"PTE_4K", "INVALID", "INVALID">>
         [] t = "PTE_2M"  -> <<"PDE_E", "INVALID", "PTE_2M">>
         [] t = "PTE_1G"  -> <<"PDP_E", "INVALID", "PTE_1G">>
         [] t = "GGTT_PTE" -> <<"GGTT_PTE", "INVALID", "INVALID">>]

get_entry_type(t) == gtt_type_table[t][1]
\* a type table in which a page directory leads to page directories
get_next_pt_type_flat(t) ==
    IF t \in {"PDE_PT", "PDE_E"} THEN "PDE_PT" ELSE gtt_type_table[t][2]
get_next_pt_type(t) == gtt_type_table[t][2]
get_pse_type(t) == gtt_type_table[t][3]

gtt_type_is_pt(t) == t \in {"PTE_PT", "PDE_PT", "PDP_PT", "PML4_PT"}
gtt_type_is_pte_pt(t) == t = "PTE_PT"

\* the entry's type after test_pse (the type changes, the value does not)
gen8_gtt_test_pse(type, v) ==
    IF get_pse_type(type) = "INVALID" THEN type
    ELSE IF ~Bit(v, PAGE_PSE) THEN get_entry_type(type)
    ELSE get_pse_type(get_entry_type(type))


(***************************************************************************)
(* The hypervisor memory service (MPT): guest memory, frame translation    *)
(* and write protection.                                                   *)
(***************************************************************************)
INTEL_GVT_INVALID_ADDR == 0 - 1

\* the hypervisor's guest-to-machine frame map of each VM; a frame the VM
\* does not own has no translation
GfnToMfn(v, gfn) ==
    IF gfn \notin GFNS THEN INTEL_GVT_INVALID_ADDR
    ELSE IF v = 1 THEN (IF gfn = 2 THEN INTEL_GVT_INVALID_ADDR ELSE 16 + gfn)
    ELSE (IF gfn = 1 THEN INTEL_GVT_INVALID_ADDR ELSE 24 + gfn)

\* vgpu->gtt.scratch_pt[type].page_mfn, one frame per VM and table level
scratch_pt(v, type) ==
    32 + 4 * v + (CASE type = "PTE_PT" -> 0 [] type = "PDE_PT" -> 1
                    [] type = "PDP_PT" -> 2 [] type = "PML4_PT" -> 3)

\* type + 1 in intel_gvt_gtt_type_t: the table type one level up
PtTypeSucc(t) ==
    CASE t = "PTE_PT" -> "PDE_PT" [] t = "PDE_PT" -> "PDP_PT"
      [] t = "PDP_PT" -> "PML4_PT" [] OTHER -> "INVALID"

ZeroPage == [i \in PtIdx |-> 0]

SeqRemove(s, x) == SelectSeq(s, LAMBDA y : y # x)
InSeq(s, x) == \E k \in 1 .. Len(s) : s[k] = x
Min(S) == CHOOSE x \in S : \A y \in S : x <= y

\* a hypervisor call of kind k fails in this operation
HvFails(w, k) == w.inj = k

\* intel_gvt_hypervisor_read_gpa of one entry: <<ok, value>>
HvReadEntry(w, v, gfn, i) ==
    IF HvFails(w, "read") \/ gfn \notin GFNS THEN <<FALSE, 0>>
    ELSE <<TRUE, w.mem[v][gfn][i]>>

\* intel_gvt_hypervisor_read_gpa of one page: <<ok, page>>
HvReadPage(w, v, gfn) ==
    IF HvFails(w, "read") \/ gfn \notin GFNS THEN <<FALSE, ZeroPage>>
    ELSE <<TRUE, w.mem[v][gfn]>>

\* gtt_get_entry64 with hypervisor_access: [w, ok, val]; on a failed read the
\* caller's e->val64 keeps the value old it had
gtt_get_entry64(w, v, gfn, i, old) ==
    IF w.vg[v].gce
      THEN IF i = 0
             THEN Bind(HvReadPage(w, v, gfn), LAMBDA r :
                  IF r[1]
                    THEN [w |-> [w EXCEPT !.vg[v].cge = r[2]],
                          ok |-> TRUE, val |-> r[2][0]]
                    ELSE [w |-> [w EXCEPT !.hvf = TRUE], ok |-> FALSE,
                          val |-> old])
             ELSE [w |-> w, ok |-> TRUE, val |-> w.vg[v].cge[i]]
      ELSE Bind(HvReadEntry(w, v, gfn, i), LAMBDA r :
           IF r[1] THEN [w |-> w, ok |-> TRUE, val |-> r[2]]
           ELSE [w |-> [w EXCEPT !.hvf = TRUE], ok |-> FALSE, val |-> old])

\* intel_gvt_hypervisor_set_wp_page on the tracked page of shadow page id,
\* asked of VM v: [w, ok]
set_wp_page(w, v, id) ==
    IF w.spt[id].wp THEN [w |-> w, ok |-> TRUE]
    ELSE IF HvFails(w, "setwp") THEN [w |-> [w EXCEPT !.hvf = TRUE], ok |-> FALSE]
    ELSE [w |-> [w EXCEPT !.hwp = @ \cup {<<v, w.spt[id].gfn>>},
                          !.spt[id].wp = TRUE],
          ok |-> TRUE]

\* intel_gvt_hypervisor_unset_wp_page: [w, ok]
unset_wp_page(w, v, id) ==
    IF ~w.spt[id].wp THEN [w |-> w, ok |-> TRUE]
    ELSE IF HvFails(w, "unsetwp")
      THEN [w |-> [w EXCEPT !.hvf = TRUE], ok |-> FALSE]
    ELSE [w |-> [w EXCEPT !.hwp = @ \ {<<v, w.spt[id].gfn>>},
                          !.spt[id].wp = FALSE],
          ok |-> TRUE]

(***************************************************************************)
(* The world: the state a handler works on.                                *)
(*   mem   guest memory, mem[v][gfn][i]                                    *)
(*   hwp   the <<v, gfn>> the hypervisor write-protects                    *)
(*   spt   live shadow pages by machine frame (intel_vgpu_ppgtt_spt with   *)
(*         its shadow_page and guest_page): vgpu, gtype (guest_page_type), *)
(*         stype (shadow_page.type), gfn, ref (refcount), ent (the shadow  *)
(*         page), wp (writeprotection), wcnt (write_cnt), oos (oos_page,   *)
(*         0 for NULL), psb (post_shadow_bitmap)                           *)
(*   mm    live mm objects: vgpu, level, vpt (virtual_page_table), sroot   *)
(*         (shadow_page_table), shadowed, pin (pincount), ref              *)
(*   lru   gvt->gtt.mm_lru_list_head, least recently used first           *)
(*   oos   OOS buffers: mem, gp (guest_page as shadow page frame, 0 NULL)  *)
(*   free, use   oos_page_free_list_head, oos_page_use_list_head           *)
(*   vg    per vGPU: oosl (oos_page_list_head), psl (post_shadow_list_head)*)
(*         gce (ge_cache_enable), cge (cached_guest_entry)                 *)
(*   sgfn, smfn   the static saved_gfn, saved_mfn of gtt_entry_p2m         *)
(* and, for the handler that is running:                                   *)
(*   inj   the hypervisor call kind that fails during it                   *)
(*   af    how many shadow-page allocations still fail                     *)
(*   alias whether a store through a dangling shadow page pointer lands    *)
(*         in the page allocated last (its memory was reused) or is lost   *)
(*   hvf   a hypervisor call has failed                                    *)
(*   gone, dead   shadow pages freed by it, and what they held             *)
(*   last  the shadow page allocated last                                  *)
(*   uaf   it used a freed shadow page; crash  it freed one twice or       *)
(*         recursed without end; warn  a WARN_ON of invalidate_mm fired    *)
(*   recl  the mm objects reclaim_one_mm invalidated, in order             *)
(*   alc   the calls of ppgtt_alloc_shadow_page, in order                  *)
(*   syn   the OOS buffers sync_oos_page has synced with success           *)
(*   ev    the stores to shadow slots and the frees of shadow pages it     *)
(*         made, in order                                                  *)
(*   pop   the calls of ppgtt_populate_shadow_page_by_guest_entry, in the  *)
(*         order they returned                                             *)
(***************************************************************************)
FnPut(f, k, x) == [y \in DOMAIN f \cup {k} |-> IF y = k THEN x ELSE f[y]]
FnDel(f, k) == [y \in DOMAIN f \ {k} |-> f[y]]

Live(w, id) == id \in DOMAIN w.spt

\* what the shadow page pointer id points at: the page, or the freed memory
SptRec(w, id) == IF Live(w, id) THEN w.spt[id] ELSE w.dead[id]

\* a load through a shadow page pointer
Touch(w, id) == IF Live(w, id) THEN w ELSE [w EXCEPT !.uaf = TRUE]

\* ppgtt_get_shadow_entry: the entry with its type after test_pse
ShadowEntry(w, id, i) ==
     Bind(SptRec(w, id), LAMBDA r :
        Bind(r.ent[i], LAMBDA v :
     [type |-> gen8_gtt_test_pse(get_entry_type(r.stype), v), val |-> v]))

\* ppgtt_set_shadow_entry: the store of val into slot i of shadow page id
ppgtt_set_shadow_entry(w, id, i, val) ==
    IF Live(w, id)
      THEN [w EXCEPT !.spt[id].ent[i] = val,
                     !.ev = Append(@, [set |-> id, i |-> i, val |-> val])]
    ELSE IF w.alias /\ w.last # 0 /\ Live(w, w.last)
      THEN [w EXCEPT !.uaf = TRUE, !.spt[w.last].ent[i] = val]
    ELSE [w EXCEPT !.uaf = TRUE]

\* find_shadow_page: the live shadow page of VM v at machine frame mfn, or 0
find_shadow_page(w, v, mfn) ==
    IF mfn \in DOMAIN w.spt /\ w.spt[mfn].vgpu = v THEN mfn ELSE 0

\* the shadow pages of VM v whose guest page tracks gfn
GuestPagesOf(w, v, gfn) ==
    {id \in DOMAIN w.spt : w.spt[id].vgpu = v /\ w.spt[id].gfn = gfn}

\* intel_vgpu_find_guest_page: the tracked guest page of gfn, or 0
intel_vgpu_find_guest_page(w, v, gfn) ==
    IF GuestPagesOf(w, v, gfn) = {} THEN 0 ELSE Min(GuestPagesOf(w, v, gfn))

\* a detach that leaves the buffer on the in-use list
detach_oos_page_in_use(w, o) ==
     Bind(w.oos[o].gp, LAMBDA g :
        Bind(IF g # 0 /\ Live(w, g)
                THEN [w EXCEPT !.spt[g].wcnt = 0, !.spt[g].oos = 0]
                ELSE w, LAMBDA w1 :
     [w1 EXCEPT !.oos[o].gp = 0,
                  !.vg = [v \in VGPUS |->
                            [w1.vg[v] EXCEPT !.oosl = SeqRemove(@, o)]]]))

\* detach_oos_page
detach_oos_page(w, o) ==
     Bind(w.oos[o].gp, LAMBDA g :
        Bind(IF g # 0 /\ Live(w, g)
                THEN [w EXCEPT !.spt[g].wcnt = 0, !.spt[g].oos = 0]
                ELSE w, LAMBDA w1 :
     [w1 EXCEPT !.oos[o].gp = 0,
                  !.vg = [v \in VGPUS |->
                            [w1.vg[v] EXCEPT !.oosl = SeqRemove(@, o)]],
                  !.use = SeqRemove(@, o),
                  !.free = Append(SeqRemove(@, o), o)]))

\* ppgtt_free_shadow_page: clean_shadow_page, intel_vgpu_clean_guest_page,
\* list_del_init(post_shadow_list), free_spt
ppgtt_free_shadow_page(w, id) ==
    IF ~Live(w, id) THEN [w EXCEPT !.crash = TRUE]
    ELSE
     Bind(w.spt[id].vgpu, LAMBDA v :
        Bind(IF w.spt[id].oos # 0 THEN detach_oos_page(w, w.spt[id].oos)
              ELSE w, LAMBDA w1 :
        Bind(unset_wp_page(w1, v, id).w, LAMBDA w2 :
     [w2 EXCEPT !.vg[v].psl = SeqRemove(@, id),
                  !.dead = FnPut(@, id, w2.spt[id]),
                  !.gone = @ \cup {id},
                  !.ev = Append(@, [free |-> id]),
                  !.spt = FnDel(@, id)])))

(***************************************************************************)
(* Shadow page invalidation, root teardown, reclaim and allocation.        *)
(***************************************************************************)
RootIdx == 0 .. 3
ZeroRoot == [i \in RootIdx |-> 0]

\* the deepest chain of calls a shadow walk that ends can make: a walk that
\* enters more pages than there are is inside one it has entered before, with
\* nothing changed that would stop it
MaxDepth == Cardinality(SptMfns) + 1

\* mm->page_table_entry_type
RootType(level) == IF level = 3 THEN "ROOT_L3" ELSE "ROOT_L4"

\* ppgtt_get_shadow_root_entry / ppgtt_get_guest_root_entry
RootEntry(type, v) == [type |-> gen8_gtt_test_pse(type, v), val |-> v]

RECURSIVE ppgtt_invalidate_shadow_page(_, _, _)
RECURSIVE InvalidateEntries(_, _, _, _)

\* ppgtt_invalidate_shadow_page_by_shadow_entry: [w, ret]
ppgtt_invalidate_shadow_page_by_shadow_entry(w, v, e, fuel) ==
    IF ~gtt_type_is_pt(get_next_pt_type(e.type))
      THEN [w |-> w, ret |-> "EINVAL"]
    ELSE IF e.type \notin {"ROOT_L3", "ROOT_L4"}
            /\ PtTypeSucc(get_next_pt_type(e.type)) = "INVALID"
      THEN [w |-> w, ret |-> "EINVAL"]
    ELSE IF e.type \notin {"ROOT_L3", "ROOT_L4"}
            /\ gen8_gtt_get_pfn(e.type, e.val)
                 = scratch_pt(v, PtTypeSucc(get_next_pt_type(e.type)))
      THEN [w |-> w, ret |-> "OK"]
    ELSE Bind(find_shadow_page(w, v, gen8_gtt_get_pfn(e.type, e.val)), LAMBDA s :
         IF s = 0 THEN [w |-> w, ret |-> "ENXIO"]
         ELSE ppgtt_invalidate_shadow_page(w, s, fuel))

\* the for_each_present_shadow_entry loop of ppgtt_invalidate_shadow_page,
\* from index i, and the release after it
InvalidateEntries(w, id, i, fuel) ==
    IF i \notin PtIdx
      THEN [w |-> ppgtt_free_shadow_page(w, id), ret |-> "OK"]
    ELSE Bind(ShadowEntry(w, id, i), LAMBDA e :
             Bind(Touch(w, id), LAMBDA w0 :
          IF ~gen8_gtt_test_present(e.type, e.val)
              THEN InvalidateEntries(w0, id, i + 1, fuel)
            ELSE IF ~gtt_type_is_pt(get_next_pt_type(e.type))
              THEN [w |-> w0, ret |-> "EINVAL"]
            ELSE Bind(ppgtt_invalidate_shadow_page_by_shadow_entry(
                              w0, SptRec(w0, id).vgpu, e, fuel), LAMBDA r :
                  IF r.ret # "OK" THEN r
                    ELSE InvalidateEntries(r.w, id, i + 1, fuel))))

\* ppgtt_invalidate_shadow_page: [w, ret]
ppgtt_invalidate_shadow_page(w, id, fuel) ==
    IF fuel = 0 THEN [w |-> [w EXCEPT !.crash = TRUE], ret |-> "OK"]
    ELSE Bind([w EXCEPT !.spt[id].ref = @ - 1,
                        !.ev = Append(@, [put |-> id])], LAMBDA w1 :
         IF w1.spt[id].ref > 0 THEN [w |-> w1, ret |-> "OK"]
         ELSE IF gtt_type_is_pte_pt(w1.spt[id].stype)
           THEN [w |-> ppgtt_free_shadow_page(w1, id), ret |-> "OK"]
         ELSE InvalidateEntries(w1, id, 0, fuel - 1))

RECURSIVE InvalidateRoots(_, _, _)
\* the loop of invalidate_mm over the shadow root entries, from index i; the
\* result of invalidating an entry is not looked at (w.dropped collects the
\* error codes that went that way)
InvalidateRoots(w, m, i) ==
    IF i \notin RootIdx THEN w
    ELSE Bind(RootEntry(RootType(w.mm[m].level), w.mm[m].sroot[i]), LAMBDA se :
         IF ~gen8_gtt_test_present(se.type, se.val)
           THEN InvalidateRoots(w, m, i + 1)
         ELSE Bind(ppgtt_invalidate_shadow_page_by_shadow_entry(
                           w, w.mm[m].vgpu, se, MaxDepth), LAMBDA r :
                  Bind(IF r.ret = "OK" THEN r.w
                        ELSE [r.w EXCEPT !.dropped = @ \cup {r.ret}], LAMBDA w1 :
               InvalidateRoots([w1 EXCEPT !.mm[m].sroot[i] = 0], m, i + 1))))

\* invalidate_mm (the vGPU does not use PVMMIO_PPGTT_UPDATE)
\* w.ev notes what the call found and what it left behind
invalidate_mm(w, m) ==
    IF ~w.mm[m].shadowed THEN [w EXCEPT !.warn = TRUE]
    ELSE Bind([InvalidateRoots(
                   [w EXCEPT !.ev = Append(@, [inval |-> m, mm |-> w.mm[m],
                                               spt |-> w.spt])],
                   m, 0) EXCEPT !.mm[m].shadowed = FALSE], LAMBDA w1 :
         [w1 EXCEPT !.ev = Append(@, [invald |-> m, mm |-> w1.mm[m],
                                      spt |-> w1.spt])])

\* the device's part of a world: what outlasts the handler
Device(w) ==
    <<w.mem, w.hwp, w.spt, w.mm, w.lru, w.oos, w.free, w.use, w.vg, w.gg,
      w.hgtt, w.sgfn, w.smfn>>

\* every mm of the LRU list, pinned or not
AnyOnLru(w) == w.lru

\* the mm objects reclaim_one_mm does not skip, in list order: those with
\* pin count zero
Unpinned(w) == SelectSeq(w.lru, LAMBDA m : w.mm[m].pin = 0)

\* what is noted of a call of reclaim_one_mm that found world w, chose mm m
\* (0 for none) and returned r
ReclaimNote(w, m, r) ==
    [m |-> m, ret |-> r.ret, lru |-> w.lru,
     pin |-> [x \in DOMAIN w.mm |-> w.mm[x].pin], lru1 |-> r.w.lru,
     sh1 |-> IF m = 0 THEN FALSE ELSE r.w.mm[m].shadowed,
     sroot1 |-> IF m = 0 THEN ZeroRoot ELSE r.w.mm[m].sroot,
     same |-> Device(r.w) = Device(w)]

\* reclaim_one_mm: [w, ret]; each call is noted in recl
reclaim_one_mm(w) ==
    Bind(IF Unpinned(w) = <<>> THEN 0 ELSE Head(Unpinned(w)), LAMBDA m :
    Bind(IF m = 0 THEN [w |-> w, ret |-> 0]
         ELSE [w |-> invalidate_mm([w EXCEPT !.lru = SeqRemove(@, m)], m),
               ret |-> 1], LAMBDA r :
    [w |-> [r.w EXCEPT !.recl = Append(@, ReclaimNote(w, m, r))],
     ret |-> r.ret]))

\* machine frames alloc_spt can return
FreeMfns(w) == SptMfns \ (DOMAIN w.spt \cup w.gone)

NewSpt(v, type, gfn) ==
    [vgpu |-> v, gtype |-> type, stype |-> type, gfn |-> gfn, ref |-> 1,
     ent |-> ZeroPage, wp |-> FALSE, wcnt |-> 0, oos |-> 0, psb |-> {}]

\* what is noted of a call of ppgtt_alloc_shadow_page: how often alloc_spt
\* failed, what each call of reclaim_one_mm returned, and its own result
NoAllocNote == [fails |-> 0, rets |-> <<>>, ret |-> "none"]

\* the note of the running call of ppgtt_alloc_shadow_page, with alloc_spt
\* failing once more
NoteFail(w) == [w EXCEPT !.alc[Len(w.alc)].fails = @ + 1]

\* the same, with reclaim_one_mm returning ret
NoteReclaim(w, ret) == [w EXCEPT !.alc[Len(w.alc)].rets = Append(@, ret)]

\* the same, with the call returning ret
NoteResult(w, ret) == [w EXCEPT !.alc[Len(w.alc)].ret = ret]

\* alloc_spt fails in world w: it was made to, or no frame is left
AllocSptFails(w) == w.af > 0 \/ FreeMfns(w) = {}

\* a single retry after the first successful reclaim: [w, ret, s]
AllocRetryOnce(w, v, type, gfn) ==
    IF AllocSptFails(w)
      THEN Bind(NoteFail(IF w.af > 0 THEN [w EXCEPT !.af = @ - 1, !.aff = TRUE]
                         ELSE w), LAMBDA w1 :
           Bind(reclaim_one_mm(w1), LAMBDA r :
           Bind(NoteReclaim(r.w, r.ret), LAMBDA w2 :
            IF r.ret = 1 /\ ~AllocSptFails(w2)
              THEN [w |-> NoteResult(
                            [w2 EXCEPT !.spt = FnPut(@, Min(FreeMfns(w2)),
                                                     NewSpt(v, type, gfn)),
                                       !.last = Min(FreeMfns(w2))], "OK"),
                    ret |-> "OK", s |-> Min(FreeMfns(w2))]
            ELSE IF r.ret = 1
              THEN [w |-> NoteResult(
                            NoteFail(IF w2.af > 0
                                       THEN [w2 EXCEPT !.af = @ - 1]
                                     ELSE w2), "ENOMEM"),
                    ret |-> "ENOMEM", s |-> 0]
            ELSE [w |-> NoteResult(w2, "ENOMEM"), ret |-> "ENOMEM",
                  s |-> 0])))
    ELSE Bind(Min(FreeMfns(w)), LAMBDA id :
         [w |-> NoteResult([w EXCEPT !.spt = FnPut(@, id, NewSpt(v, type, gfn)),
                                     !.last = id], "OK"),
          ret |-> "OK", s |-> id])

RECURSIVE AllocRetry(_, _, _, _)
\* the retry loop of ppgtt_alloc_shadow_page: [w, ret, s]
AllocRetry(w, v, type, gfn) ==
    IF AllocSptFails(w)
      THEN Bind(NoteFail(IF w.af > 0 THEN [w EXCEPT !.af = @ - 1, !.aff = TRUE]
                         ELSE w), LAMBDA w1 :
           Bind(reclaim_one_mm(w1), LAMBDA r :
           Bind(NoteReclaim(r.w, r.ret), LAMBDA w2 :
            IF r.ret = 1 THEN AllocRetry(w2, v, type, gfn)
              ELSE [w |-> NoteResult(w2, "ENOMEM"), ret |-> "ENOMEM",
                    s |-> 0])))
    ELSE Bind(Min(FreeMfns(w)), LAMBDA id :
         [w |-> NoteResult([w EXCEPT !.spt = FnPut(@, id, NewSpt(v, type, gfn)),
                                     !.last = id], "OK"),
          ret |-> "OK", s |-> id])

\* ppgtt_alloc_shadow_page: [w, ret, s]; each call is noted in alc
ppgtt_alloc_shadow_page(w, v, type, gfn) ==
    AllocRetry([w EXCEPT !.alc = Append(@, NoAllocNote)], v, type, gfn)

(***************************************************************************)
(* Translation of entries, population of shadow pages, and the handling    *)
(* of one guest entry update.                                              *)
(***************************************************************************)
\* intel_gvt_hypervisor_gfn_to_mfn: [w, mfn]
HvGfnToMfn(w, v, gfn) ==
     Bind(IF HvFails(w, "g2m") THEN INTEL_GVT_INVALID_ADDR
               ELSE GfnToMfn(v, gfn), LAMBDA mfn :
     [w |-> IF mfn = INTEL_GVT_INVALID_ADDR THEN [w EXCEPT !.hvf = TRUE]
              ELSE w,
        mfn |-> mfn])

\* gtt_entry_p2m: [w, ret, val]; w.ev notes each translation that is
\* handed out
gtt_entry_p2m(w, v, type, val) ==
    IF ~gen8_gtt_test_present(type, val)
      THEN [w |-> w, ret |-> "OK", val |-> val]
    ELSE Bind(gen8_gtt_get_pfn(type, val), LAMBDA gfn :
             Bind(IF gfn # w.sgfn THEN HvGfnToMfn(w, v, gfn)
                  ELSE [w |-> w, mfn |-> w.smfn], LAMBDA r :
          IF r.mfn = INTEL_GVT_INVALID_ADDR
              THEN [w |-> r.w, ret |-> "ENXIO", val |-> val]
            ELSE [w |-> [r.w EXCEPT !.sgfn = gfn, !.smfn = r.mfn,
                                    !.ev = Append(@, [p2m |-> v, gfn |-> gfn,
                                                      mfn |-> r.mfn])],
                  ret |-> "OK",
                  val |-> gen8_gtt_set_pfn(type, val, r.mfn)]))

\* ppgtt_get_guest_entry: [w, ok, e]; old is what e->val64 held before
ppgtt_get_guest_entry(w, id, i, old) ==
     Bind(SptRec(w, id), LAMBDA sp :
        Bind(get_entry_type(sp.gtype), LAMBDA t :
        Bind(gtt_get_entry64(Touch(w, id), sp.vgpu, sp.gfn, i, old), LAMBDA r :
     [w |-> r.w, ok |-> r.ok,
        e |-> [type |-> IF r.ok THEN gen8_gtt_test_pse(t, r.val) ELSE t,
               val |-> r.val]])))

RECURSIVE ppgtt_populate_shadow_page(_, _, _)
RECURSIVE PopulatePtes(_, _, _)
RECURSIVE PopulateDirs(_, _, _, _)

\* what is noted of a call of ppgtt_populate_shadow_page_by_guest_entry that
\* went past its type test, when it returns: the frame gfn the entry targets,
\* the shadow page that tracked it (0 if none), the shadow page s returned
\* and its reference count before and after, whether s is a page that did
\* not exist, whether gfn is write-protected, how many calls of
\* ppgtt_alloc_shadow_page were made, the type of the entry we, how deep
\* in calls of itself the call was (1 for a call made by a handler), the
\* shadow pages that are live after the call and were not before it, and
\* those whose reference count is higher after it than before
NotePopulate(r, w, v, we, fuel, g, s) ==
    [r EXCEPT !.w.pop =
        Append(@, [v |-> v, gfn |-> gen8_gtt_get_pfn(we.type, we.val),
                   found |-> g, s |-> s, ret |-> r.ret,
                   type |-> we.type, depth |-> MaxDepth + 1 - fuel,
                   ref0 |-> IF g # 0 THEN w.spt[g].ref ELSE 0,
                   ref1 |-> IF s \in DOMAIN r.w.spt THEN r.w.spt[s].ref ELSE 0,
                   fresh |-> s \notin DOMAIN w.spt,
                   wp |-> <<v, gen8_gtt_get_pfn(we.type, we.val)>> \in r.w.hwp,
                   allocs |-> Len(r.w.alc) - Len(w.alc),
                   left |-> DOMAIN r.w.spt \ DOMAIN w.spt,
                   up |-> {x \in DOMAIN r.w.spt \cap DOMAIN w.spt :
                              r.w.spt[x].ref > w.spt[x].ref}])]

\* ppgtt_populate_shadow_page_by_guest_entry: [w, ret, s]
ppgtt_populate_shadow_page_by_guest_entry(w, v, we, fuel) ==
    IF ~gtt_type_is_pt(get_next_pt_type(we.type))
      THEN [w |-> w, ret |-> "EINVAL", s |-> 0]
    ELSE Bind(gen8_gtt_get_pfn(we.type, we.val), LAMBDA gfn :
             Bind(intel_vgpu_find_guest_page(w, v, gfn), LAMBDA g :
          IF g # 0
              THEN NotePopulate([w |-> [w EXCEPT !.spt[g].ref = @ + 1],
                                 ret |-> "OK", s |-> g], w, v, we, fuel, g, g)
            ELSE Bind(ppgtt_alloc_shadow_page(
                              w, v, get_next_pt_type(we.type), gfn), LAMBDA a :
                  IF a.ret # "OK" THEN NotePopulate(a, w, v, we, fuel, 0, 0)
                    ELSE Bind(set_wp_page(a.w, v, a.s), LAMBDA p :
                         IF ~p.ok
                           THEN NotePopulate([w |-> p.w, ret |-> "EFAULT",
                                              s |-> 0], w, v, we, fuel, 0, a.s)
                         ELSE Bind(ppgtt_populate_shadow_page(
                                           p.w, a.s, fuel), LAMBDA q :
                               NotePopulate(
                                   [w |-> q.w, ret |-> q.ret,
                                    s |-> IF q.ret = "OK" THEN a.s ELSE 0],
                                   w, v, we, fuel, 0, a.s))))))

\* the loop of ppgtt_populate_shadow_page over a PTE table, from index i
PopulatePtes(w, id, i) ==
    IF i \notin PtIdx
      THEN [w |-> [w EXCEPT !.vg[SptRec(w, id).vgpu].gce = FALSE],
            ret |-> "OK"]
    ELSE Bind(ppgtt_get_guest_entry(w, id, i, 0), LAMBDA g :
         IF ~g.ok \/ ~gen8_gtt_test_present(g.e.type, g.e.val)
           THEN PopulatePtes(g.w, id, i + 1)
         ELSE Bind(gtt_entry_p2m(g.w, SptRec(w, id).vgpu, g.e.type,
                                     g.e.val), LAMBDA t :
               IF t.ret # "OK" THEN [w |-> t.w, ret |-> t.ret]
                 ELSE PopulatePtes(ppgtt_set_shadow_entry(t.w, id, i, t.val),
                                   id, i + 1)))

\* the loop of ppgtt_populate_shadow_page over a directory, from index i
PopulateDirs(w, id, i, fuel) ==
    IF i \notin PtIdx THEN [w |-> w, ret |-> "OK"]
    ELSE Bind(ppgtt_get_guest_entry(w, id, i, 0), LAMBDA g :
         IF ~g.ok \/ ~gen8_gtt_test_present(g.e.type, g.e.val)
           THEN PopulateDirs(g.w, id, i + 1, fuel)
         ELSE IF ~gtt_type_is_pt(get_next_pt_type(g.e.type))
           THEN [w |-> g.w, ret |-> "EINVAL"]
         ELSE Bind(ppgtt_populate_shadow_page_by_guest_entry(
                           g.w, SptRec(w, id).vgpu, g.e, fuel), LAMBDA r :
               IF r.ret # "OK" THEN [w |-> r.w, ret |-> r.ret]
                 ELSE PopulateDirs(
                          ppgtt_set_shadow_entry(Touch(r.w, id), id, i,
                              gen8_gtt_set_pfn(g.e.type, g.e.val, r.s)),
                          id, i + 1, fuel)))

\* ppgtt_populate_shadow_page: [w, ret]
ppgtt_populate_shadow_page(w, id, fuel) ==
    IF fuel = 0 THEN [w |-> [w EXCEPT !.crash = TRUE], ret |-> "OK"]
    ELSE IF gtt_type_is_pte_pt(SptRec(w, id).stype)
      THEN PopulatePtes([Touch(w, id) EXCEPT
                            !.vg[SptRec(w, id).vgpu].gce = TRUE], id, 0)
    ELSE PopulateDirs(Touch(w, id), id, 0, fuel - 1)

\* ppgtt_handle_guest_entry_removal: [w, ret]
ppgtt_handle_guest_entry_removal(w, id, se) ==
     Bind(SptRec(w, id), LAMBDA sp :
        Bind(Touch(w, id), LAMBDA w0 :
     IF ~gen8_gtt_test_present(se.type, se.val)
         THEN [w |-> w0, ret |-> "OK"]
       ELSE IF gen8_gtt_get_pfn(se.type, se.val) = scratch_pt(sp.vgpu, sp.stype)
         THEN [w |-> w0, ret |-> "OK"]
       ELSE IF gtt_type_is_pt(get_next_pt_type(se.type))
         THEN Bind(find_shadow_page(w0, sp.vgpu,
                                        gen8_gtt_get_pfn(se.type, se.val)), LAMBDA s :
               IF s = 0 THEN [w |-> w0, ret |-> "ENXIO"]
                 ELSE ppgtt_invalidate_shadow_page(w0, s, MaxDepth))
       ELSE [w |-> w0, ret |-> "OK"]))

\* ppgtt_handle_guest_entry_add: [w, ret]
ppgtt_handle_guest_entry_add(w, id, we, index) ==
     Bind(SptRec(w, id), LAMBDA sp :
        Bind(Touch(w, id), LAMBDA w0 :
     IF gtt_type_is_pt(get_next_pt_type(we.type))
         THEN Bind(ppgtt_populate_shadow_page_by_guest_entry(
                           w0, sp.vgpu, we, MaxDepth), LAMBDA r :
               IF r.ret # "OK" THEN [w |-> r.w, ret |-> r.ret]
                 ELSE [w |-> ppgtt_set_shadow_entry(Touch(r.w, id), id, index,
                                 gen8_gtt_set_pfn(we.type, we.val, r.s)),
                       ret |-> "OK"])
       ELSE Bind(gtt_entry_p2m(w0, sp.vgpu, we.type, we.val), LAMBDA t :
            IF t.ret # "OK" THEN [w |-> t.w, ret |-> t.ret]
            ELSE [w |-> ppgtt_set_shadow_entry(t.w, id, index, t.val),
                  ret |-> "OK"])))

\* ppgtt_handle_guest_write_page_table: [w, ret]
ppgtt_handle_guest_write_page_table(w, id, we, index) ==
     Bind(SptRec(w, id), LAMBDA sp :
        Bind(ShadowEntry(w, id, index), LAMBDA se :
        Bind(gen8_gtt_test_present(we.type, we.val), LAMBDA new_present :
        Bind(IF new_present THEN ppgtt_handle_guest_entry_add(w, id, we, index)
             ELSE [w |-> Touch(w, id), ret |-> "OK"], LAMBDA a :
     IF a.ret # "OK" THEN a
       ELSE Bind(ppgtt_handle_guest_entry_removal(a.w, id, se), LAMBDA r :
            IF r.ret # "OK" THEN r
            ELSE IF new_present THEN r
            ELSE [w |-> ppgtt_set_shadow_entry(r.w, id, index,
                            gen8_gtt_set_pfn(se.type, se.val,
                                scratch_pt(sp.vgpu, sp.stype))),
                  ret |-> "OK"])))))

(***************************************************************************)
(* Out-of-sync pages, post shadow, and the write-protection handler.       *)
(***************************************************************************)
\* a store to a field of shadow page id: lost, and noted, when it was freed
SptStore(w, id, new) ==
    IF Live(w, id) THEN [w EXCEPT !.spt[id] = new] ELSE [w EXCEPT !.uaf = TRUE]

\* list_del_init(&spt->post_shadow_list)
PostShadowDel(w, id) ==
    [w EXCEPT !.vg = [v \in VGPUS |-> [w.vg[v] EXCEPT !.psl = SeqRemove(@, id)]]]

\* list_del_init(&oos_page->vm_list)
VmListDel(w, o) ==
    [w EXCEPT !.vg = [v \in VGPUS |-> [w.vg[v] EXCEPT !.oosl = SeqRemove(@, o)]]]

RECURSIVE SyncEntries(_, _, _, _, _)
\* the loop of sync_oos_page from index i; new is what new.val64 holds: the
\* result of the read is not looked at
SyncEntries(w, v, o, i, new) ==
     Bind(w.oos[o].gp, LAMBDA id :
        Bind(SptRec(w, id), LAMBDA sp :
     IF i \notin PtIdx
         THEN [w |-> [PostShadowDel(
                         SptStore(w, id, [sp EXCEPT !.wcnt = 0]), id)
                        EXCEPT !.syn = @ \cup {o}],
               ret |-> "OK"]
       ELSE Bind(w.oos[o].mem[i], LAMBDA old :
                Bind(gtt_get_entry64(w, v, sp.gfn, i, new), LAMBDA g :
                Bind(old = g.val, LAMBDA same :
                Bind(IF same /\ i \in sp.psb
                        THEN SptStore(g.w, id, [sp EXCEPT !.psb = @ \ {i}])
                        ELSE g.w, LAMBDA w1 :
             IF same /\ i \notin sp.psb
                 THEN SyncEntries(w1, v, o, i + 1, g.val)
               ELSE Bind(gtt_entry_p2m(w1, v, get_entry_type(sp.gtype),
                                           g.val), LAMBDA t :
                     IF t.ret # "OK" THEN [w |-> t.w, ret |-> t.ret]
                       ELSE SyncEntries(
                                ppgtt_set_shadow_entry(
                                    [t.w EXCEPT !.oos[o].mem[i] = g.val],
                                    id, i, t.val),
                                v, o, i + 1, g.val))))))))

\* sync_oos_page: [w, ret]
sync_oos_page(w, v, o) == SyncEntries(Touch(w, w.oos[o].gp), v, o, 0, 0)

\* ppgtt_set_guest_page_sync: [w, ret]
ppgtt_set_guest_page_sync(w, v, id) ==
     Bind(set_wp_page(w, v, id), LAMBDA p :
    IF ~p.ok THEN [w |-> p.w, ret |-> "EFAULT"]
    ELSE sync_oos_page(VmListDel(p.w, p.w.spt[id].oos), v, p.w.spt[id].oos))

\* attach_oos_page: [w, ret]
attach_oos_page(w, v, o, id) ==
     Bind(HvReadPage(w, v, w.spt[id].gfn), LAMBDA r :
    IF ~r[1] THEN [w |-> [w EXCEPT !.hvf = TRUE], ret |-> "EFAULT"]
    ELSE [w |-> [w EXCEPT !.oos[o] = [mem |-> r[2], gp |-> id],
                          !.spt[id].oos = o,
                          !.free = SeqRemove(@, o),
                          !.use = Append(SeqRemove(@, o), o)],
          ret |-> "OK"])

\* an allocation that takes the buffer of another page without syncing that
\* page first: [w, ret]
ppgtt_allocate_oos_page_unsynced(w, v, id) ==
    IF w.free = <<>>
      THEN attach_oos_page(detach_oos_page(w, Head(w.use)), v, Head(w.use), id)
    ELSE attach_oos_page(w, v, Head(w.free), id)

\* ppgtt_allocate_oos_page: [w, ret]
ppgtt_allocate_oos_page(w, v, id) ==
    IF w.free = <<>>
      THEN Bind(Head(w.use), LAMBDA o :
               Bind(ppgtt_set_guest_page_sync(w, v, w.oos[o].gp), LAMBDA r :
            IF r.ret # "OK" THEN r
              ELSE attach_oos_page(detach_oos_page(r.w, o), v, o, id)))
    ELSE attach_oos_page(w, v, Head(w.free), id)

\* ppgtt_set_guest_page_oos: [w, ret]
ppgtt_set_guest_page_oos(w, v, id) ==
    IF w.spt[id].oos = 0 THEN [w |-> w, ret |-> "EINVAL"]
    ELSE Bind(w.spt[id].oos, LAMBDA o :
             Bind([w EXCEPT !.vg[v].oosl = Append(SeqRemove(@, o), o)], LAMBDA w1 :
             Bind(unset_wp_page(w1, v, id), LAMBDA u :
          [w |-> u.w, ret |-> IF u.ok THEN "OK" ELSE "EFAULT"])))

\* a loop that stops after the first page of the list
SyncOosHead(w, v, l) ==
    IF l = <<>> THEN [w |-> w, ret |-> "OK"]
    ELSE ppgtt_set_guest_page_sync(w, v, w.oos[Head(l)].gp)

RECURSIVE SyncOosList(_, _, _)
\* the list_for_each_safe loop of intel_vgpu_sync_oos_pages over the pages l
SyncOosList(w, v, l) ==
    IF l = <<>> THEN [w |-> w, ret |-> "OK"]
    ELSE Bind(ppgtt_set_guest_page_sync(w, v, w.oos[Head(l)].gp), LAMBDA r :
         IF r.ret # "OK" THEN r ELSE SyncOosList(r.w, v, Tail(l)))

\* intel_vgpu_sync_oos_pages (enable_gvt_oos is set): [w, ret]
intel_vgpu_sync_oos_pages(w, v) == SyncOosList(w, v, w.vg[v].oosl)

\* a threshold one write later than the one of can_do_out_of_sync
can_do_out_of_sync_late(w, id) ==
    gtt_type_is_pte_pt(w.spt[id].gtype) /\ w.spt[id].wcnt >= 3

\* can_do_out_of_sync
can_do_out_of_sync(w, id) ==
    gtt_type_is_pte_pt(w.spt[id].gtype) /\ w.spt[id].wcnt >= 2

\* ppgtt_set_post_shadow
ppgtt_set_post_shadow(w, id, index) ==
     Bind(SptRec(w, id), LAMBDA sp :
        Bind(SptStore(w, id, [sp EXCEPT !.psb = @ \cup {index}]), LAMBDA w1 :
     IF InSeq(w1.vg[sp.vgpu].psl, id) THEN w1
       ELSE [w1 EXCEPT !.vg[sp.vgpu].psl = Append(@, id)]))

RECURSIVE FlushBits(_, _, _, _)
\* the for_each_set_bit loop of intel_vgpu_flush_post_shadow over the bitmap
\* of shadow page id, from index i: [w, ret, ge]; ge is what ge.val64 holds
FlushBits(w, id, i, ge) ==
    IF i \notin PtIdx THEN [w |-> PostShadowDel(w, id), ret |-> "OK", ge |-> ge]
    ELSE IF i \notin SptRec(w, id).psb THEN FlushBits(Touch(w, id), id, i + 1, ge)
    ELSE Bind(ppgtt_get_guest_entry(w, id, i, ge), LAMBDA g :
             Bind(ppgtt_handle_guest_write_page_table(g.w, id, g.e, i), LAMBDA r :
          IF r.ret # "OK" THEN [w |-> r.w, ret |-> r.ret, ge |-> g.e.val]
            ELSE FlushBits(
                     SptStore(r.w, id,
                              [SptRec(r.w, id) EXCEPT !.psb = @ \ {i}]),
                     id, i + 1, g.e.val)))

RECURSIVE FlushList(_, _, _)
\* the list_for_each_safe loop of intel_vgpu_flush_post_shadow
FlushList(w, l, ge) ==
    IF l = <<>> THEN [w |-> w, ret |-> "OK"]
    ELSE Bind(FlushBits(w, Head(l), 0, ge), LAMBDA r :
         IF r.ret # "OK" THEN [w |-> r.w, ret |-> r.ret]
         ELSE FlushList(r.w, Tail(l), r.ge))

\* intel_vgpu_flush_post_shadow: [w, ret]; ge.val64 starts uninitialized
intel_vgpu_flush_post_shadow(w, v) == FlushList(w, w.vg[v].psl, w.garb)

\* ppgtt_handle_guest_write_page_table_bytes: [w, ret]
ppgtt_handle_guest_write_page_table_bytes(w, id, index, val, bytes) ==
     Bind(w.spt[id], LAMBDA sp :
        Bind(sp.vgpu, LAMBDA v :
        Bind(IF HvFails(w, "write") THEN [w EXCEPT !.hvf = TRUE]
              ELSE [w EXCEPT !.mem[v][sp.gfn][index] = val], LAMBDA w1 :
        Bind(ppgtt_get_guest_entry(w1, id, index, w.garb), LAMBDA g :
        Bind([type |-> gen8_gtt_test_pse(g.e.type, g.e.val), val |-> g.e.val], LAMBDA we :
        Bind(ShadowEntry(g.w, id, index), LAMBDA se :
        Bind(IF bytes = 8
               THEN ppgtt_handle_guest_write_page_table(g.w, id, we, index)
             ELSE IF index \in sp.psb
               THEN [w |-> ppgtt_set_post_shadow(g.w, id, index), ret |-> "OK"]
             ELSE Bind(ppgtt_handle_guest_entry_removal(g.w, id, se), LAMBDA r :
                  IF r.ret # "OK" THEN r
                  ELSE [w |-> ppgtt_set_post_shadow(
                                  ppgtt_set_shadow_entry(r.w, id, index,
                                      gen8_gtt_set_pfn(se.type, se.val,
                                          scratch_pt(v, sp.stype))),
                                  id, index),
                        ret |-> "OK"]), LAMBDA a :
     IF a.ret # "OK" THEN a
       ELSE IF ~Live(a.w, id) THEN [w |-> [a.w EXCEPT !.uaf = TRUE], ret |-> "OK"]
       ELSE Bind([a.w EXCEPT !.spt[id].wcnt = @ + 1], LAMBDA w2 :
                Bind(IF w2.spt[id].oos # 0
                        THEN [w2 EXCEPT !.oos[w2.spt[id].oos].mem[index] = we.val]
                        ELSE w2, LAMBDA w3 :
             IF ~can_do_out_of_sync(w3, id) THEN [w |-> w3, ret |-> "OK"]
               ELSE Bind(IF w3.spt[id].oos = 0
                               THEN ppgtt_allocate_oos_page(w3, v, id).w
                               ELSE w3, LAMBDA b :
                     ppgtt_set_guest_page_oos(b, v, id)))))))))))

\* ppgtt_write_protection_handler: [w, ret]
ppgtt_write_protection_handler(w, id, index, val, bytes) ==
    IF bytes # 4 /\ bytes # 8 THEN [w |-> w, ret |-> "EINVAL"]
    ELSE IF ~w.spt[id].wp THEN [w |-> w, ret |-> "EINVAL"]
    ELSE ppgtt_handle_guest_write_page_table_bytes(w, id, index, val, bytes)

(***************************************************************************)
(* mm objects: shadowing a root, create, destroy, pin, and the walk.       *)
(***************************************************************************)
RECURSIVE ShadowRoots(_, _, _)
\* the loop of shadow_mm over the guest root entries, from index i: [w, ret]
ShadowRoots(w, m, i) ==
    IF i \notin RootIdx THEN [w |-> w, ret |-> "OK"]
    ELSE Bind(RootEntry(RootType(w.mm[m].level), w.mm[m].vpt[i]), LAMBDA ge :
         IF ~gen8_gtt_test_present(ge.type, ge.val)
           THEN ShadowRoots(w, m, i + 1)
         ELSE Bind(ppgtt_populate_shadow_page_by_guest_entry(
                           w, w.mm[m].vgpu, ge, MaxDepth), LAMBDA r :
               IF r.ret # "OK"
                   THEN [w |-> invalidate_mm(r.w, m), ret |-> r.ret]
                 ELSE ShadowRoots(
                          [r.w EXCEPT !.mm[m].sroot[i] =
                               gen8_gtt_set_pfn(ge.type, ge.val, r.s)],
                          m, i + 1)))

\* shadow_mm (the vGPU does not use PVMMIO_PPGTT_UPDATE): [w, ret]
shadow_mm(w, m) ==
    IF w.mm[m].shadowed THEN [w |-> [w EXCEPT !.warn = TRUE], ret |-> "OK"]
    ELSE ShadowRoots([w EXCEPT !.mm[m].shadowed = TRUE], m, 0)

\* intel_vgpu_destroy_mm of a PPGTT mm
intel_vgpu_destroy_mm(w, m) ==
     Bind(invalidate_mm([w EXCEPT !.lru = SeqRemove(@, m)], m), LAMBDA w1 :
    [w1 EXCEPT !.mm = FnDel(@, m)])

\* intel_gvt_mm_unreference: kref_put with intel_vgpu_destroy_mm
intel_gvt_mm_unreference(w, m) ==
    IF w.mm[m].ref > 1 THEN [w EXCEPT !.mm[m].ref = @ - 1]
    ELSE intel_vgpu_destroy_mm(w, m)

\* intel_vgpu_create_mm of a PPGTT mm with root pdp: [w, ret]
intel_vgpu_create_mm(w, v, level, pdp) ==
     Bind(Min(MmIds \ DOMAIN w.mm), LAMBDA m :
        Bind([w EXCEPT !.mm = FnPut(@, m,
                   [vgpu |-> v, level |-> level, vpt |-> pdp,
                    sroot |-> ZeroRoot, shadowed |-> FALSE, pin |-> 0,
                    ref |-> 1])], LAMBDA w1 :
        Bind(shadow_mm(w1, m), LAMBDA r :
     IF r.ret # "OK"
         THEN [w |-> intel_gvt_mm_unreference(r.w, m), ret |-> r.ret]
       ELSE [w |-> [r.w EXCEPT !.lru = Append(@, m)], ret |-> "OK"])))

\* the mm objects intel_vgpu_find_ppgtt_mm matches
PpgttMatches(w, v, level, pdp) ==
    {m \in DOMAIN w.mm :
        /\ w.mm[m].vgpu = v
        /\ w.mm[m].level = level
        /\ IF level = 3 THEN \A i \in RootIdx : pdp[i] = w.mm[m].vpt[i]
           ELSE pdp[0] = w.mm[m].vpt[0]}

\* intel_vgpu_find_ppgtt_mm: the mm, or 0 for NULL
intel_vgpu_find_ppgtt_mm(w, v, level, pdp) ==
    IF PpgttMatches(w, v, level, pdp) = {} THEN 0
    ELSE Min(PpgttMatches(w, v, level, pdp))

\* intel_vgpu_g2v_create_ppgtt_mm: [w, ret]
intel_vgpu_g2v_create_ppgtt_mm(w, v, level, pdp) ==
     Bind(intel_vgpu_find_ppgtt_mm(w, v, level, pdp), LAMBDA m :
    IF m # 0 THEN [w |-> [w EXCEPT !.mm[m].ref = @ + 1], ret |-> "OK"]
    ELSE intel_vgpu_create_mm(w, v, level, pdp))

\* intel_vgpu_g2v_destroy_ppgtt_mm: [w, ret]
intel_vgpu_g2v_destroy_ppgtt_mm(w, v, level, pdp) ==
     Bind(intel_vgpu_find_ppgtt_mm(w, v, level, pdp), LAMBDA m :
    IF m = 0 THEN [w |-> w, ret |-> "EINVAL"]
    ELSE [w |-> intel_gvt_mm_unreference(w, m), ret |-> "OK"])

\* a pin that leaves the mm where it is in the LRU list: [w, ret]
intel_vgpu_pin_mm_in_place(w, m) ==
     Bind([w EXCEPT !.mm[m].pin = @ + 1], LAMBDA w1 :
        Bind(IF w1.mm[m].shadowed THEN [w |-> w1, ret |-> "OK"]
             ELSE shadow_mm(w1, m), LAMBDA r :
     IF r.ret # "OK" THEN r
       ELSE [w |-> IF InSeq(r.w.lru, m) THEN r.w
                   ELSE [r.w EXCEPT !.lru = Append(@, m)],
             ret |-> "OK"]))

\* handle_g2v_notification, for the notifications about a PPGTT mm: [w, ret]
handle_g2v_notification(w, v, notification, pdp) ==
    CASE notification = "PPGTT_L3_PAGE_TABLE_CREATE" ->
             intel_vgpu_g2v_create_ppgtt_mm(w, v, 3, pdp)
      [] notification = "PPGTT_L3_PAGE_TABLE_DESTROY" ->
             intel_vgpu_g2v_destroy_ppgtt_mm(w, v, 3, pdp)
      [] notification = "PPGTT_L4_PAGE_TABLE_CREATE" ->
             intel_vgpu_g2v_create_ppgtt_mm(w, v, 4, pdp)
      [] notification = "PPGTT_L4_PAGE_TABLE_DESTROY" ->
             intel_vgpu_g2v_destroy_ppgtt_mm(w, v, 4, pdp)
      [] OTHER -> [w |-> w, ret |-> "OK"]

\* pvinfo_mmio_write to the g2v_notify register: [w, ret, g2v]; ret is what
\* the MMIO handler returns, g2v what handle_g2v_notification returned to it
pvinfo_mmio_write(w, v, data, pdp) ==
     Bind(handle_g2v_notification(w, v, data, pdp), LAMBDA r :
     [w |-> r.w, ret |-> "OK", g2v |-> r.ret])

\* the notification a guest sends to create or destroy a PPGTT mm
G2vNotification(level, what) ==
    IF level = 3
      THEN (IF what = "create" THEN "PPGTT_L3_PAGE_TABLE_CREATE"
            ELSE "PPGTT_L3_PAGE_TABLE_DESTROY")
    ELSE (IF what = "create" THEN "PPGTT_L4_PAGE_TABLE_CREATE"
          ELSE "PPGTT_L4_PAGE_TABLE_DESTROY")

\* intel_vgpu_pin_mm: [w, ret]
intel_vgpu_pin_mm(w, m) ==
     Bind([w EXCEPT !.mm[m].pin = @ + 1], LAMBDA w1 :
        Bind(IF w1.mm[m].shadowed THEN [w |-> w1, ret |-> "OK"]
             ELSE shadow_mm(w1, m), LAMBDA r :
     IF r.ret # "OK" THEN r
       ELSE [w |-> [r.w EXCEPT !.lru = Append(SeqRemove(@, m), m)],
             ret |-> "OK"]))

\* intel_vgpu_unpin_mm
intel_vgpu_unpin_mm(w, m) == [w EXCEPT !.mm[m].pin = @ - 1]

\* the index fields of a graphics memory address; a table holds
\* Cardinality(PtIdx) entries, so a field that is 9 bits wide on the device
\* is one digit of that base here
PtEntries == Cardinality(PtIdx)
gma_to_ggtt_pte_index(gma) == gma \div GTT_PAGE_SIZE
gen8_gma_to_pte_index(gma) == (gma \div GTT_PAGE_SIZE) % PtEntries
gen8_gma_to_pde_index(gma) == (gma \div (GTT_PAGE_SIZE * PtEntries)) % PtEntries
gen8_gma_to_l3_pdp_index(gma) ==
    (gma \div (GTT_PAGE_SIZE * PtEntries * PtEntries)) % 4
gen8_gma_to_l4_pdp_index(gma) ==
    (gma \div (GTT_PAGE_SIZE * PtEntries * PtEntries)) % PtEntries
gen8_gma_to_pml4_index(gma) ==
    (gma \div (GTT_PAGE_SIZE * PtEntries * PtEntries * PtEntries)) % PtEntries

\* the lookup of the next table without a choice of side: always the shadow
\* entry
get_next_level_shadow_entry(w, m, e, index, guest) ==
    IF ~w.mm[m].shadowed
      THEN [w |-> [w EXCEPT !.warn = TRUE], ret |-> "EINVAL", e |-> e]
    ELSE Bind(find_shadow_page(w, w.mm[m].vgpu,
                               gen8_gtt_get_pfn(e.type, e.val)), LAMBDA s :
         IF s = 0 THEN [w |-> w, ret |-> "ENXIO", e |-> e]
         ELSE [w |-> w, ret |-> "OK", e |-> ShadowEntry(w, s, index)])

\* ppgtt_get_next_level_entry: [w, ret, e]
ppgtt_get_next_level_entry(w, m, e, index, guest) ==
    IF ~w.mm[m].shadowed
      THEN [w |-> [w EXCEPT !.warn = TRUE], ret |-> "EINVAL", e |-> e]
    ELSE Bind(find_shadow_page(w, w.mm[m].vgpu,
                               gen8_gtt_get_pfn(e.type, e.val)), LAMBDA s :
         IF s = 0 THEN [w |-> w, ret |-> "ENXIO", e |-> e]
         ELSE IF ~guest
           THEN [w |-> w, ret |-> "OK", e |-> ShadowEntry(w, s, index)]
         ELSE Bind(ppgtt_get_guest_entry(w, s, index, e.val), LAMBDA g :
              [w |-> g.w, ret |-> "OK", e |-> g.e]))

RECURSIVE WalkLevels(_, _, _, _)
\* the loop of intel_vgpu_gma_to_gpa over the indices idx: [w, ok, e]
WalkLevels(w, m, e, idx) ==
    IF idx = <<>> THEN [w |-> w, ok |-> TRUE, e |-> e]
    ELSE Bind(ppgtt_get_next_level_entry(w, m, e, Head(idx), Len(idx) = 1),
              LAMBDA r :
         IF r.ret # "OK" \/ ~gen8_gtt_test_present(r.e.type, r.e.val)
           THEN [w |-> r.w, ok |-> FALSE, e |-> r.e]
         ELSE WalkLevels(r.w, m, r.e, Tail(idx)))

\* the indices intel_vgpu_gma_to_gpa takes from gma for a PPGTT of that depth
GmaIndex(level, gma) ==
    IF level = 4
      THEN <<gen8_gma_to_pml4_index(gma), gen8_gma_to_l4_pdp_index(gma),
             gen8_gma_to_pde_index(gma), gen8_gma_to_pte_index(gma)>>
    ELSE <<gen8_gma_to_pde_index(gma), gen8_gma_to_pte_index(gma)>>

\* intel_vgpu_gma_to_gpa of a PPGTT mm: [w, gpa]
intel_vgpu_gma_to_gpa(w, m, gma) ==
    Bind(RootEntry(RootType(w.mm[m].level),
                   w.mm[m].sroot[IF w.mm[m].level = 4 THEN 0
                                 ELSE gen8_gma_to_l3_pdp_index(gma)]),
         LAMBDA e :
    Bind(WalkLevels(w, m, e, GmaIndex(w.mm[m].level, gma)), LAMBDA r :
    [w |-> r.w,
     gpa |-> IF ~r.ok THEN INTEL_GVT_INVALID_ADDR
             ELSE gen8_gtt_get_pfn(r.e.type, r.e.val) * GTT_PAGE_SIZE
                  + (gma % GTT_PAGE_SIZE)]))

(***************************************************************************)
(* The GGTT of a vGPU.                                                     *)
(***************************************************************************)
\* gvt->gtt.scratch_ggtt_mfn
scratch_ggtt_mfn == 60

\* vgpu_gmadr_is_valid: the address lies in the vGPU's range
vgpu_gmadr_is_valid(gma) == gma_to_ggtt_pte_index(gma) \in GgttIdx

\* emulate_gtt_mmio_write of a whole entry: [w, ret]
emulate_gtt_mmio_write(w, v, index, val) ==
    IF ~vgpu_gmadr_is_valid(index * GTT_PAGE_SIZE) THEN [w |-> w, ret |-> "OK"]
    ELSE Bind(gtt_entry_p2m(w, v, "GGTT_PTE", val), LAMBDA t :
             Bind(IF gen8_gtt_test_present("GGTT_PTE", val) /\ t.ret = "OK"
                    THEN t.val
                  ELSE gen8_gtt_set_pfn("GGTT_PTE", val, scratch_ggtt_mfn), LAMBDA m :
             Bind(IF gen8_gtt_test_present("GGTT_PTE", val) THEN t.w ELSE w, LAMBDA w1 :
          [w |-> [w1 EXCEPT !.gg[v].sh[index] = m, !.gg[v].vpt[index] = val],
             ret |-> "OK"])))

\* intel_vgpu_gma_to_gpa of the GGTT mm
ggtt_gma_to_gpa(w, v, gma) ==
    IF ~vgpu_gmadr_is_valid(gma) THEN INTEL_GVT_INVALID_ADDR
    ELSE gen8_gtt_get_pfn("GGTT_PTE", w.gg[v].vpt[gma_to_ggtt_pte_index(gma)])
           * GTT_PAGE_SIZE + (gma % GTT_PAGE_SIZE)

(***************************************************************************)
(* The PV operations on the device's global table.  A guest names a range  *)
(* of the table by its first byte and its length; the table is laid out as *)
(*   entry 0      the host's                                               *)
(*   entries 1-2  the aperture of vGPU 1, 3-4 the aperture of vGPU 2       *)
(*   entry 5      the host's                                               *)
(*   entries 6-7  the hidden range of vGPU 1, 8-9 that of vGPU 2           *)
(***************************************************************************)
\* dev_priv->ggtt.base.total
ggtt_total == Cardinality(HostGgttIdx) * GTT_PAGE_SIZE

vgpu_aperture_gmadr_base(v) == (2 * v - 1) * GTT_PAGE_SIZE
vgpu_aperture_gmadr_end(v) == (2 * v + 1) * GTT_PAGE_SIZE - 1
vgpu_hidden_gmadr_base(v) == (2 * v + 4) * GTT_PAGE_SIZE
vgpu_hidden_gmadr_end(v) == (2 * v + 6) * GTT_PAGE_SIZE - 1

\* validate_ggtt_range: [start, length], what *start and *length hold when
\* it returns.  end is a u64: start + length - 1 wraps when both are 0 (the
\* word is narrowed to 30 bits here, far above every address of the table)
validate_ggtt_range(v, start, length) ==
    IF start > ggtt_total \/ length > ggtt_total
      THEN [start |-> start, length |-> 0]
    ELSE Bind((start + length - 1) % (2^30), LAMBDA end :
         IF start >= vgpu_aperture_gmadr_base(v)
              /\ end <= vgpu_aperture_gmadr_end(v)
           THEN [start |-> start, length |-> length]
         ELSE IF start >= vgpu_hidden_gmadr_base(v)
                   /\ end <= vgpu_hidden_gmadr_end(v)
           THEN [start |-> start, length |-> length]
         ELSE IF start >= vgpu_aperture_gmadr_base(v)
                   /\ start <= vgpu_aperture_gmadr_end(v)
           THEN [start |-> start,
                 length |-> vgpu_aperture_gmadr_end(v) - start + 1]
         ELSE IF end >= vgpu_aperture_gmadr_base(v)
                   /\ end <= vgpu_aperture_gmadr_end(v)
           THEN [start |-> vgpu_aperture_gmadr_base(v), length |-> length]
         ELSE IF start >= vgpu_hidden_gmadr_base(v)
                   /\ start <= vgpu_hidden_gmadr_end(v)
           THEN [start |-> start,
                 length |-> vgpu_hidden_gmadr_end(v) - start + 1]
         ELSE IF end >= vgpu_hidden_gmadr_base(v)
                   /\ end <= vgpu_hidden_gmadr_end(v)
           THEN [start |-> vgpu_hidden_gmadr_base(v), length |-> length]
         ELSE [start |-> start, length |-> 0])

\* the entries of the global table that a range of length bytes from byte
\* start covers: (start >> PAGE_SHIFT) + i for i < length >> PAGE_SHIFT
GgttEntries(start, length) ==
    {(start \div GTT_PAGE_SIZE) + i : i \in 0 .. (length \div GTT_PAGE_SIZE) - 1}

\* vaddr[index] of the vGPU's virtual global table; an entry that was never
\* written is zero
VirtualGgttEntry(w, v, index) ==
    IF index \in GgttIdx THEN w.gg[v].vpt[index] ELSE 0

\* intel_vgpu_g2v_pv_ggtt_insert: [w, ret, start, length, touched]; start
\* and length are the range after validation, touched the entries of the
\* global table that were written
intel_vgpu_g2v_pv_ggtt_insert(w, v, start, num_entries) ==
    Bind(validate_ggtt_range(v, start, num_entries * GTT_PAGE_SIZE), LAMBDA r :
    IF r.length = 0
      THEN [w |-> w, ret |-> "OK", start |-> r.start, length |-> 0,
            touched |-> {}]
    ELSE Bind(GgttEntries(r.start, r.length), LAMBDA t :
         IF \E i \in t :
               HvGfnToMfn(w, v, VirtualGgttEntry(w, v, i) \div GTT_PAGE_SIZE).mfn
                 = INTEL_GVT_INVALID_ADDR
           THEN [w |-> [w EXCEPT !.hvf = TRUE], ret |-> "ENXIO",
                 start |-> r.start, length |-> r.length, touched |-> {}]
         ELSE [w |-> [w EXCEPT !.hgtt =
                        [i \in HostGgttIdx |->
                           IF i \in t
                             THEN Ent(GfnToMfn(v, VirtualGgttEntry(w, v, i)
                                                    \div GTT_PAGE_SIZE),
                                      PAGE_PRESENT)
                           ELSE @[i]]],
               ret |-> "OK", start |-> r.start, length |-> r.length,
               touched |-> t]))

\* intel_vgpu_g2v_pv_ggtt_clear: [w, ret, start, length, touched]
intel_vgpu_g2v_pv_ggtt_clear(w, v, start, length) ==
    Bind(validate_ggtt_range(v, start, length), LAMBDA r :
    IF r.length = 0
      THEN [w |-> w, ret |-> "OK", start |-> r.start, length |-> 0,
            touched |-> {}]
    ELSE Bind(GgttEntries(r.start, r.length), LAMBDA t :
         [w |-> [w EXCEPT !.hgtt =
                   [i \in HostGgttIdx |->
                      IF i \in t THEN Ent(scratch_ggtt_mfn, PAGE_PRESENT)
                      ELSE @[i]]],
          ret |-> "OK", start |-> r.start, length |-> r.length,
          touched |-> t]))

(***************************************************************************)
(* The reset of a vGPU's GTT state.                                        *)
(***************************************************************************)
RECURSIVE ppgtt_free_all_shadow_page(_, _)
\* ppgtt_free_all_shadow_page: every shadow page of the vGPU's hash table is
\* freed, whatever its reference count
ppgtt_free_all_shadow_page(w, v) ==
    IF \A id \in DOMAIN w.spt : w.spt[id].vgpu # v THEN w
    ELSE ppgtt_free_all_shadow_page(
             ppgtt_free_shadow_page(
                 w, Min({id \in DOMAIN w.spt : w.spt[id].vgpu = v})), v)

\* a free of the mms that leaves them on the LRU list
intel_vgpu_free_mm_on_lru(w, v) ==
    [w EXCEPT !.mm = [m \in {x \in DOMAIN w.mm : w.mm[x].vgpu # v} |-> w.mm[m]]]

\* intel_vgpu_free_mm(vgpu, INTEL_GVT_MM_PPGTT): every PPGTT mm of the vGPU
\* leaves the mm list and the LRU list and is freed, whatever its reference
\* and pin counts
intel_vgpu_free_mm(w, v) ==
    [w EXCEPT !.lru = SelectSeq(@, LAMBDA m : w.mm[m].vgpu # v),
              !.mm = [m \in {x \in DOMAIN w.mm : w.mm[x].vgpu # v} |-> w.mm[m]]]

\* intel_vgpu_reset_ggtt: the entries of the vGPU's ranges point at the
\* scratch frame again
intel_vgpu_reset_ggtt(w, v) ==
    [w EXCEPT !.hgtt =
                [i \in HostGgttIdx |->
                   IF i \in GgttEntries(vgpu_aperture_gmadr_base(v),
                                        vgpu_aperture_gmadr_end(v) + 1
                                          - vgpu_aperture_gmadr_base(v))
                           \cup GgttEntries(vgpu_hidden_gmadr_base(v),
                                            vgpu_hidden_gmadr_end(v) + 1
                                              - vgpu_hidden_gmadr_base(v))
                     THEN Ent(scratch_ggtt_mfn, PAGE_PRESENT)
                   ELSE @[i]],
              !.gg[v].sh = [i \in GgttIdx |-> Ent(scratch_ggtt_mfn, PAGE_PRESENT)]]

\* intel_vgpu_reset_gtt (the scratch pages it zeroes hold no state here)
intel_vgpu_reset_gtt(w, v) ==
    intel_vgpu_reset_ggtt(
        intel_vgpu_free_mm(ppgtt_free_all_shadow_page(w, v), v), v)

(***************************************************************************)
(* Workload dispatch.                                                      *)
(***************************************************************************)
\* workload->prepare: bring the shadow tables up to date: [w, ret]
prepare_workload(w, v) ==
     Bind(intel_vgpu_sync_oos_pages(w, v), LAMBDA s :
    IF s.ret # "OK" THEN s ELSE intel_vgpu_flush_post_shadow(s.w, v))

\* dispatch_workload: [w, ret, prep, locked, sub]; scan is how the steps
\* around the prepare step end: "fail" is intel_gvt_scan_and_shadow_workload
\* failing before the request is allocated, "fail_req" after it, "pin_fail"
\* the context pin that follows the prepare step failing
dispatch_workload(w, v, scan) ==
    IF scan \in {"fail", "fail_req"}
      THEN [w |-> w, ret |-> "EFAULT", prep |-> "none", locked |-> FALSE,
            sub |-> scan = "fail_req"]
    ELSE Bind(prepare_workload(w, v), LAMBDA r :
         [w |-> r.w,
          ret |-> IF r.ret = "OK" /\ scan = "pin_fail" THEN "ENOMEM" ELSE r.ret,
          prep |-> r.ret, locked |-> TRUE, sub |-> TRUE])

(***************************************************************************)
(* The state machine.                                                      *)
(*   left  how many more operations of each kind the behaviour makes       *)
(*   env   what the guests of the behaviour do: the vGPUs that act, the    *)
(*         roots and paging levels they announce, the entry values and     *)
(*         widths they write, the addresses looked up, and the failures    *)
(*         the hypervisor and the allocator can show                       *)
(*   last  what is remembered of the operation that ran last; again says   *)
(*         of a sync that it follows a sync of the same vGPU that returned *)
(*         0                                                               *)
(***************************************************************************)
VARIABLES mem, hwp, spt, mm, lru, oos, free, use, vg, gg, hgtt, sgfn, smfn,
          left, env, last, holder, pc

\* the device and the bookkeeping of a behaviour; the locks and the threads
dvars == <<mem, hwp, spt, mm, lru, oos, free, use, vg, gg, hgtt, sgfn, smfn,
           left, env, last>>
lvars == <<holder, pc>>
vars == <<dvars, lvars>>

EmptyFn == [x \in {} |-> 0]

\* the kinds of hypervisor call that can be made to fail
InjKinds == {"read", "write", "g2m", "setwp", "unsetwp"}

\* what ends up in an uninitialized entry variable
GarbVals == {0, Ent(0, PAGE_PRESENT)}

NoFault == [inj |-> "none", af |-> 0, alias |-> FALSE, garb |-> 0]

\* the failures an operation can be made to meet
FaultChoices ==
    {NoFault} \cup
    (IF left.fault = 0 THEN {}
     ELSE {[inj |-> k, af |-> 0, alias |-> FALSE, garb |-> 0] :
               k \in env.inj \ {"read"}}
          \cup {[inj |-> "read", af |-> 0, alias |-> FALSE, garb |-> g] :
                    k \in env.inj \cap {"read"}, g \in GarbVals}
          \cup {[inj |-> "none", af |-> n, alias |-> b, garb |-> 0] :
                    n \in 1 .. env.af, b \in BOOLEAN})

\* the world a handler starts in, meeting the failures f
W(f) ==
    [mem |-> mem, hwp |-> hwp, spt |-> spt, mm |-> mm, lru |-> lru,
     oos |-> oos, free |-> free, use |-> use, vg |-> vg, gg |-> gg,
     hgtt |-> hgtt, sgfn |-> sgfn, smfn |-> smfn,
     inj |-> f.inj, af |-> f.af, alias |-> f.alias, garb |-> f.garb,
     hvf |-> FALSE, aff |-> FALSE, gone |-> {}, dead |-> EmptyFn, last |-> 0,
     uaf |-> FALSE, crash |-> FALSE, warn |-> FALSE, dropped |-> {},
     recl |-> <<>>, alc |-> <<>>, syn |-> {}, ev |-> <<>>, pop |-> <<>>]

\* the world as it stands, no failure ahead
Quiet == W(NoFault)

NoLast ==
    [op |-> "init", v |-> 0, a |-> 0, i |-> 0, val |-> 0, bytes |-> 0,
     ret |-> "OK", hvf |-> FALSE, aff |-> FALSE, uaf |-> FALSE,
     crash |-> FALSE, warn |-> FALSE, dropped |-> {}, recl |-> <<>>,
     alc |-> <<>>, syn |-> {}, mmio |-> "OK", gpa |-> 0, prep |-> "none", locked |-> FALSE, sub |-> FALSE,
     again |-> FALSE, start |-> 0, length |-> 0, touched |-> {}, gone |-> {},
     ev |-> <<>>, pop |-> <<>>]

Done(op, v, a, i, val, bytes, w, ret) ==
    [NoLast EXCEPT !.op = op, !.v = v, !.a = a, !.i = i, !.val = val,
                   !.bytes = bytes, !.ret = ret, !.hvf = w.hvf, !.aff = w.aff,
                   !.uaf = w.uaf, !.crash = w.crash, !.warn = w.warn,
                   !.dropped = w.dropped, !.recl = w.recl,
                   !.alc = w.alc, !.syn = w.syn, !.gone = w.gone,
                   !.ev = w.ev, !.pop = w.pop]

\* the handler's world becomes the state
Commit(w, l) ==
    /\ mem' = w.mem /\ hwp' = w.hwp /\ spt' = w.spt /\ mm' = w.mm
    /\ lru' = w.lru /\ oos' = w.oos /\ free' = w.free /\ use' = w.use
    /\ vg' = w.vg /\ gg' = w.gg /\ sgfn' = w.sgfn /\ smfn' = w.smfn
    /\ hgtt' = w.hgtt
    /\ last' = l
    /\ env' = env
    /\ UNCHANGED lvars

\* a behaviour ends with the address lookup it makes, and with the handler
\* that overran the kernel stack or went through a freed shadow page: what
\* the machine does after that is not defined
Running ==
    /\ last.op \notin {"walk", "ggttwalk"}
    /\ ~last.crash
    /\ ~last.uaf

\* whether the behaviour may still make an operation of kind k
Can(k) == Running /\ left.steps > 0 /\ left[k] > 0

\* one operation of kind k is used up, and the failure if it was met
Spend(k, w) ==
    left' = [left EXCEPT ![k] = @ - 1, !.steps = @ - 1,
                         !.fault = IF w.hvf \/ w.aff THEN @ - 1 ELSE @]

\* what a guest can have in its memory when its vGPU is created: nothing, a
\* page directory at frame 2 with one page table, or with two page tables
ImgEmpty == [g \in GFNS |-> ZeroPage]
ImgTree ==
    [g \in GFNS |->
        IF g = 2 THEN [i \in PtIdx |-> IF i = 0 THEN Ent(1, PAGE_PRESENT) ELSE 0]
        ELSE IF g = 1
          THEN [i \in PtIdx |-> IF i = 0 THEN Ent(0, PAGE_PRESENT) ELSE 0]
        ELSE ZeroPage]
\* a page directory at frame 2 that leads to an empty page table at frame 1
ImgEmptyLeaf ==
    [g \in GFNS |->
        IF g = 2 THEN [i \in PtIdx |-> IF i = 0 THEN Ent(1, PAGE_PRESENT) ELSE 0]
        ELSE ZeroPage]
\* a chain of four tables: frame 2 leads to 1, 1 to 0, 0 to 3
ImgDeep ==
    [g \in GFNS |->
        [i \in PtIdx |->
            IF i # 0 THEN 0
            ELSE Ent(CASE g = 2 -> 1 [] g = 1 -> 0 [] g = 0 -> 3 [] OTHER -> 1,
                     PAGE_PRESENT)]]
ImgTwo ==
    [g \in GFNS |->
        IF g = 2
          THEN [i \in PtIdx |-> IF i = 0 THEN Ent(1, PAGE_PRESENT)
                                ELSE Ent(0, PAGE_PRESENT)]
        ELSE IF g = 1
          THEN [i \in PtIdx |-> IF i = 0 THEN Ent(1, PAGE_PRESENT) ELSE 0]
        ELSE [i \in PtIdx |-> IF i = 0 THEN 0 ELSE Ent(1, PAGE_PRESENT)]]

\* the root pointers a guest announces, the entry values it writes, and the
\* addresses that are looked up
RootAt(gfn) == [ZeroRoot EXCEPT ![0] = Ent(gfn, PAGE_PRESENT)]
WVals ==
    {0, Ent(1, PAGE_PRESENT), Ent(2, PAGE_PRESENT),
     Ent(0, PAGE_PRESENT + PAGE_PSE)}
GMAS == {5, GTT_PAGE_SIZE, 3 * GTT_PAGE_SIZE}

\* how many operations a behaviour of each kind makes
ShadowSteps == 3
ReclaimSteps == 5
OosSteps == 7
CrossSteps == 4
TeardownSteps == 5
PoolSteps == 6
PvSteps == 1
PinSteps == 4
StealSteps == 6
HalfSteps == 5

NoBudget ==
    [steps |-> 0, create |-> 0, destroy |-> 0, pin |-> 0, write |-> 0,
     store |-> 0, sync |-> 0, flush |-> 0, dispatch |-> 0, ggtt |-> 0,
     walk |-> 0, fault |-> 0, pv |-> 0, reset |-> 0]
NoEnv ==
    [vgpus |-> {1}, levels |-> {3}, roots |-> {RootAt(2)}, pages |-> GFNS,
     vals |-> {0}, bytes |-> {8}, gmas |-> {}, inj |-> {}, af |-> 0,
     scans |-> {"ok"}, starts |-> {}, lengths |-> {}]
SameImg(img) == [v \in VGPUS |-> img]

\* a guest sets up page tables of either depth, writes to one of them and
\* tears them down or has them used, with any one failure on the way
ScenarioShadow ==
    [left |-> [NoBudget EXCEPT !.steps = ShadowSteps, !.create = 1,
                               !.destroy = 1, !.write = 1, !.sync = 1,
                               !.flush = 1, !.dispatch = 1, !.walk = 1,
                               !.reset = 1, !.fault = 1],
     env |-> [NoEnv EXCEPT !.levels = {3, 4}, !.roots = {ZeroRoot, RootAt(2)},
                           !.vals = WVals, !.bytes = {4, 8}, !.gmas = GMAS,
                           !.inj = InjKinds, !.af = 1,
                           !.scans = {"ok", "fail", "fail_req", "pin_fail"}],
     mems |-> {SameImg(ImgTree), SameImg(ImgTwo), SameImg(ImgDeep)},
     pool |-> preallocated_oos_pages]

\* a guest sets up several address spaces, some pinned, and points a page
\* directory at one more page table, while shadow pages run short
ScenarioReclaim ==
    [left |-> [NoBudget EXCEPT !.steps = ReclaimSteps, !.create = 3,
                               !.destroy = 1, !.pin = 2, !.write = 1,
                               !.fault = 1],
     env |-> [NoEnv EXCEPT !.roots = {RootAt(2), RootAt(1), RootAt(0)},
                           !.pages = {2}, !.vals = {Ent(3, PAGE_PRESENT)},
                           !.af = MaxAllocFail],
     mems |-> {SameImg(ImgTree)},
     pool |-> preallocated_oos_pages]

\* a guest keeps writing to its two page tables, which go out of sync, and
\* submits work
ScenarioOos ==
    [left |-> [NoBudget EXCEPT !.steps = OosSteps, !.create = 1, !.write = 4,
                               !.store = 2, !.sync = 2, !.dispatch = 1,
                               !.reset = 1, !.fault = 1],
     env |-> [NoEnv EXCEPT !.pages = {0, 1},
                           !.vals = {0, Ent(1, PAGE_PRESENT)},
                           !.inj = {"setwp"}],
     mems |-> {SameImg(ImgTwo)},
     pool |-> preallocated_oos_pages]

\* two guests use the global table and one its own page tables
ScenarioCross ==
    [left |-> [NoBudget EXCEPT !.steps = CrossSteps, !.create = 1,
                               !.write = 1, !.ggtt = 2, !.walk = 1,
                               !.reset = 1, !.fault = 1],
     env |-> [NoEnv EXCEPT !.vgpus = VGPUS, !.pages = {1},
                           !.vals = {0, Ent(1, PAGE_PRESENT),
                                     Ent(2, PAGE_PRESENT)},
                           !.gmas = GMAS, !.inj = {"g2m"}],
     mems |-> {SameImg(ImgTree)},
     pool |-> preallocated_oos_pages]

\* a guest tears down and sets up again address spaces over one set of page
\* tables, one of which holds a large-page entry for a while
ScenarioTeardown ==
    [left |-> [NoBudget EXCEPT !.steps = TeardownSteps, !.create = 2,
                               !.destroy = 2, !.write = 1],
     env |-> [NoEnv EXCEPT !.levels = {3, 4}, !.pages = {0, 2},
                           !.vals = {0, Ent(0, PAGE_PRESENT + PAGE_PSE)}],
     mems |-> {SameImg(ImgTree)},
     pool |-> preallocated_oos_pages]

\* a guest writes to more page tables than there are buffers for pages out
\* of sync, and tears its address space down while one is out of sync
ScenarioPool ==
    [left |-> [NoBudget EXCEPT !.steps = PoolSteps, !.create = 1, !.write = 4,
                               !.destroy = 1, !.fault = 1],
     env |-> [NoEnv EXCEPT !.pages = {0, 1},
                           !.vals = {0, Ent(1, PAGE_PRESENT)},
                           !.inj = {"setwp"}],
     mems |-> {SameImg(ImgTwo)},
     pool |-> preallocated_oos_pages - 1]

\* two guests name ranges of the device's global table: inside their own
\* ranges, across their borders, outside them and beyond the table
ScenarioPv ==
    [left |-> [NoBudget EXCEPT !.steps = PvSteps, !.pv = PvSteps, !.fault = 1],
     env |-> [NoEnv EXCEPT !.vgpus = VGPUS, !.inj = {"g2m"},
                           !.starts = {p * GTT_PAGE_SIZE :
                                          p \in {0, 1, 2, 3, 5, 7, 8, 9, 10, 11}},
                           !.lengths = {0, 1, 2, 3, 11}],
     mems |-> {SameImg(ImgTree)},
     pool |-> preallocated_oos_pages]

\* an address space loses its shadow tables to another one while shadow
\* pages run short, and is pinned again while the hypervisor refuses to
\* write-protect a page
ScenarioPin ==
    [left |-> [NoBudget EXCEPT !.steps = PinSteps, !.create = 2, !.pin = 2,
                               !.fault = 2],
     env |-> [NoEnv EXCEPT !.roots = {RootAt(2), RootAt(0)},
                           !.inj = {"setwp"}, !.af = 1],
     mems |-> {SameImg(ImgTree)},
     pool |-> preallocated_oos_pages]

\* two guests with different page tables write to them until each needs a
\* buffer for a page out of sync, and there is one buffer only
ScenarioSteal ==
    [left |-> [NoBudget EXCEPT !.steps = StealSteps, !.create = 2,
                               !.write = 4],
     env |-> [NoEnv EXCEPT !.vgpus = VGPUS, !.pages = {1}],
     mems |-> {[v \in VGPUS |-> IF v = 1 THEN ImgTree ELSE ImgEmptyLeaf]},
     pool |-> preallocated_oos_pages - 1]

\* a guest writes halves of entries to a page table until it goes out of
\* sync, goes on writing to it and submits work
ScenarioHalf ==
    [left |-> [NoBudget EXCEPT !.steps = HalfSteps, !.create = 1, !.write = 3,
                               !.store = 1, !.sync = 1, !.flush = 1],
     env |-> [NoEnv EXCEPT !.pages = {0},
                           !.vals = {0, Ent(1, PAGE_PRESENT)},
                           !.bytes = {4}],
     mems |-> {SameImg(ImgTwo)},
     pool |-> preallocated_oos_pages]

Scenarios ==
    {ScenarioShadow, ScenarioReclaim, ScenarioOos, ScenarioCross,
     ScenarioTeardown, ScenarioPool, ScenarioPv, ScenarioPin, ScenarioSteal,
     ScenarioHalf}

\* the device after intel_gvt_init_gtt and intel_vgpu_init_gtt of each vGPU
InitDevice ==
    /\ hwp = {}
    /\ spt = EmptyFn
    /\ mm = EmptyFn
    /\ lru = <<>>
    /\ use = <<>>
    /\ vg = [v \in VGPUS |->
               [oosl |-> <<>>, psl |-> <<>>, gce |-> FALSE, cge |-> ZeroPage]]
    /\ gg = [v \in VGPUS |->
               [vpt |-> [i \in GgttIdx |-> 0],
                sh |-> [i \in GgttIdx |-> Ent(scratch_ggtt_mfn, PAGE_PRESENT)]]]
    /\ hgtt = [i \in HostGgttIdx |-> Ent(scratch_ggtt_mfn, PAGE_PRESENT)]
    /\ sgfn = 0
    /\ smfn = 0
    /\ last = NoLast

\* the threads that take the device's locks: two virtual CPUs whose MMIO
\* accesses trap, and the workload threads of two rings
TrapThreads == {1, 2}
WorkloadThreads == {3, 4}
Threads == TrapThreads \cup WorkloadThreads

\* gvt->sched_lock, gvt->lock and dev_priv->drm.struct_mutex
Locks == {"sched_lock", "lock", "struct_mutex"}

\* no lock is held; no virtual CPU is in a trap, and each workload thread is
\* about to pick a workload
LocksFree ==
    /\ holder = [l \in Locks |-> 0]
    /\ pc = [t \in Threads |-> IF t \in TrapThreads THEN "guest" ELSE "pick"]

Init ==
    /\ InitDevice
    /\ LocksFree
    /\ \E sc \in Scenarios :
          /\ left = sc.left
          /\ env = sc.env
          /\ mem \in sc.mems
          /\ oos = [o \in 1 .. sc.pool |-> [mem |-> ZeroPage, gp |-> 0]]
          /\ free = [o \in 1 .. sc.pool |-> o]

\* whether a shadow page tracks guest frame gfn of vGPU v
Tracked(v, gfn) == intel_vgpu_find_guest_page(Quiet, v, gfn) # 0

\* the guest stores to a page table of its own that is not write-protected
GuestStore ==
    \E v \in env.vgpus, gfn \in env.pages, i \in PtIdx, val \in env.vals :
        /\ Can("store")
        /\ <<v, gfn>> \notin hwp
        /\ Tracked(v, gfn)
        /\ mem' = [mem EXCEPT ![v][gfn][i] = val]
        /\ last' = [NoLast EXCEPT !.op = "store", !.v = v, !.a = gfn,
                                  !.i = i, !.val = val]
        /\ Spend("store", Quiet)
        /\ UNCHANGED <<hwp, spt, mm, lru, oos, free, use, vg, gg, hgtt, sgfn,
                       smfn, env, lvars>>

\* the guest stores to a write-protected page: the hypervisor traps the
\* store and the handler of the tracked page runs
TrappedWrite ==
    \E v \in env.vgpus, gfn \in env.pages, i \in PtIdx, val \in env.vals,
       bytes \in env.bytes, f \in FaultChoices :
        /\ Can("write")
        /\ <<v, gfn>> \in hwp
        /\ Tracked(v, gfn)
        /\ Bind(intel_vgpu_find_guest_page(Quiet, v, gfn), LAMBDA id :
               Bind(ppgtt_write_protection_handler(W(f), id, i, val, bytes), LAMBDA r :
            Commit(r.w, Done("trap", v, id, i, val, bytes, r.w, r.ret))
              /\ Spend("write", r.w)))

G2vCreate ==
    \E v \in env.vgpus, level \in env.levels, pdp \in env.roots,
       f \in FaultChoices :
        /\ Can("create")
        /\ MmIds \ DOMAIN mm # {}
        /\ Bind(pvinfo_mmio_write(W(f), v, G2vNotification(level, "create"),
                                  pdp), LAMBDA r :
            Commit(r.w, [Done("create", v, level, 0, pdp[0], 0, r.w, r.g2v)
                             EXCEPT !.mmio = r.ret])
              /\ Spend("create", r.w))

G2vDestroy ==
    \E v \in env.vgpus, level \in env.levels, pdp \in env.roots :
        /\ Can("destroy")
        /\ intel_vgpu_find_ppgtt_mm(Quiet, v, level, pdp) # 0
        /\ Bind(pvinfo_mmio_write(Quiet, v, G2vNotification(level, "destroy"),
                                  pdp), LAMBDA r :
            Commit(r.w, [Done("destroy", v, level, 0, pdp[0], 0, r.w, r.g2v)
                             EXCEPT !.mmio = r.ret])
              /\ Spend("destroy", r.w))

PinMm ==
    \E m \in DOMAIN mm, f \in FaultChoices :
        /\ Can("pin")
        /\ Bind(intel_vgpu_pin_mm(W(f), m), LAMBDA r :
            Commit(r.w, Done("pin", mm[m].vgpu, m, 0, 0, 0, r.w, r.ret))
              /\ Spend("pin", r.w))

UnpinMm ==
    \E m \in DOMAIN mm :
        /\ Running
        /\ mm[m].pin > 0
        /\ left.steps > 0
        /\ left' = [left EXCEPT !.steps = @ - 1]
        /\ Bind(intel_vgpu_unpin_mm(Quiet, m), LAMBDA w :
            Commit(w, Done("unpin", mm[m].vgpu, m, 0, 0, 0, w, "OK")))

SyncOosPages ==
    \E v \in env.vgpus, f \in FaultChoices :
        /\ Can("sync")
        /\ Bind(intel_vgpu_sync_oos_pages(W(f), v), LAMBDA r :
            Commit(r.w, [Done("sync", v, 0, 0, 0, 0, r.w, r.ret)
                             EXCEPT !.again = (last.op = "sync"
                                               /\ last.ret = "OK"
                                               /\ last.v = v)])
              /\ Spend("sync", r.w))

FlushPostShadow ==
    \E v \in env.vgpus, f \in FaultChoices :
        /\ Can("flush")
        /\ Bind(intel_vgpu_flush_post_shadow(W(f), v), LAMBDA r :
            Commit(r.w, Done("flush", v, 0, 0, 0, 0, r.w, r.ret))
              /\ Spend("flush", r.w))

DispatchWorkload ==
    \E v \in env.vgpus, scan \in env.scans, f \in FaultChoices :
        /\ Can("dispatch")
        /\ Bind(dispatch_workload(W(f), v, scan), LAMBDA r :
            Commit(r.w, [Done("dispatch", v, 0, 0, 0, 0, r.w, r.ret)
                             EXCEPT !.prep = r.prep, !.locked = r.locked,
                                    !.sub = r.sub])
              /\ Spend("dispatch", r.w))

GmaToGpa ==
    \E m \in DOMAIN mm, gma \in env.gmas, f \in FaultChoices :
        /\ Can("walk")
        /\ Bind(intel_vgpu_gma_to_gpa(W(f), m, gma), LAMBDA r :
            Commit(r.w, [Done("walk", mm[m].vgpu, m, 0, gma, 0, r.w, "OK")
                             EXCEPT !.gpa = r.gpa])
              /\ Spend("walk", r.w))

GgttWrite ==
    \E v \in env.vgpus, index \in GgttIdx \cup {Cardinality(GgttIdx)},
       val \in env.vals, f \in FaultChoices :
        /\ Can("ggtt")
        /\ Bind(emulate_gtt_mmio_write(W(f), v, index, val), LAMBDA r :
            Commit(r.w, Done("ggtt", v, 0, index, val, 8, r.w, r.ret))
              /\ Spend("ggtt", r.w))

GgttGmaToGpa ==
    \E v \in env.vgpus, gma \in env.gmas :
        /\ Can("walk")
        /\ last' = [NoLast EXCEPT !.op = "ggttwalk", !.v = v, !.val = gma,
                                  !.gpa = ggtt_gma_to_gpa(Quiet, v, gma)]
        /\ Spend("walk", Quiet)
        /\ UNCHANGED <<mem, hwp, spt, mm, lru, oos, free, use, vg, gg, hgtt,
                       sgfn, smfn, env, lvars>>
\* a guest asks through the shared page for a range of the global table to
\* be filled from its virtual table, or to be cleared
PvGgttInsert ==
    \E v \in env.vgpus, start \in env.starts, n \in env.lengths,
       f \in FaultChoices :
        /\ Can("pv")
        /\ Bind(intel_vgpu_g2v_pv_ggtt_insert(W(f), v, start, n), LAMBDA r :
            Commit(r.w, [Done("pv_insert", v, 0, 0, start, n, r.w, r.ret)
                             EXCEPT !.start = r.start, !.length = r.length,
                                    !.touched = r.touched])
              /\ Spend("pv", r.w))

PvGgttClear ==
    \E v \in env.vgpus, start \in env.starts, n \in env.lengths :
        /\ Can("pv")
        /\ Bind(intel_vgpu_g2v_pv_ggtt_clear(Quiet, v, start,
                                             n * GTT_PAGE_SIZE), LAMBDA r :
            Commit(r.w, [Done("pv_clear", v, 0, 0, start, n * GTT_PAGE_SIZE,
                              r.w, r.ret)
                             EXCEPT !.start = r.start, !.length = r.length,
                                    !.touched = r.touched])
              /\ Spend("pv", r.w))

\* the vGPU is reset
ResetGtt ==
    \E v \in env.vgpus, f \in FaultChoices :
        /\ Can("reset")
        /\ Bind(intel_vgpu_reset_gtt(W(f), v), LAMBDA w :
            Commit(w, Done("reset", v, 0, 0, 0, 0, w, "OK"))
              /\ Spend("reset", w))


Next ==
    \/ GuestStore
    \/ TrappedWrite
    \/ G2vCreate
    \/ G2vDestroy
    \/ PinMm
    \/ UnpinMm
    \/ SyncOosPages
    \/ FlushPostShadow
    \/ DispatchWorkload
    \/ GmaToGpa
    \/ GgttWrite
    \/ GgttGmaToGpa
    \/ PvGgttInsert
    \/ PvGgttClear
    \/ ResetGtt

Spec == Init /\ [][Next]_vars

(***************************************************************************)
(* The locks.  A thread's code is the set of its steps: from a place, lock *)
(* or unlock one lock (or neither), and go to the next place.  A place is  *)
(* named after the source line of the step taken from it.                  *)
(***************************************************************************)
Step(from, op, l, to) == [from |-> from, op |-> op, l |-> l, to |-> to]

\* a trapped MMIO access: the trap handler takes gvt->lock around the
\* register's handler; most handlers take no lock of their own
mmio_trap ==
    {Step("guest", "lock", "lock", "handler"),
     Step("handler", "skip", "lock", "ret"),
     Step("handler", "skip", "lock", "gdrst310"),
     Step("handler", "skip", "lock", "ring1858"),
     Step("ret", "unlock", "lock", "guest")}

\* a reset handler that takes sched_lock without giving up gvt->lock
gdrst_mmio_write_holding ==
    {Step("gdrst310", "skip", "lock", "gdrst311"),
     Step("gdrst311", "lock", "sched_lock", "gdrst314"),
     Step("gdrst314", "unlock", "sched_lock", "ret")}

\* gdrst_mmio_write
gdrst_mmio_write ==
    {Step("gdrst310", "unlock", "lock", "gdrst311"),
     Step("gdrst311", "lock", "sched_lock", "gdrst312"),
     Step("gdrst312", "lock", "lock", "gdrst314"),
     Step("gdrst314", "unlock", "sched_lock", "ret")}

\* ring_mode_mmio_write, execlist being enabled
ring_mode_mmio_write ==
    {Step("ring1858", "unlock", "lock", "ring1859"),
     Step("ring1859", "lock", "sched_lock", "ring1860"),
     Step("ring1860", "lock", "lock", "ring1862"),
     Step("ring1862", "unlock", "sched_lock", "ret")}

\* pick_next_workload, and workload_thread around dispatch_workload: without
\* a workload the thread waits and picks again
workload_thread ==
    {Step("pick", "lock", "sched_lock", "pick573"),
     Step("pick573", "unlock", "sched_lock", "pick"),
     Step("pick573", "unlock", "sched_lock", "thread791"),
     Step("thread791", "lock", "sched_lock", "dispatch463"),
     Step("thread793", "unlock", "sched_lock", "complete653")}

\* dispatch_workload: the scan fails, or the workload is prepared
dispatch_workload_locks ==
    {Step("dispatch463", "lock", "struct_mutex", "dispatch464"),
     Step("dispatch464", "skip", "lock", "dispatch514"),
     Step("dispatch464", "skip", "lock", "dispatch477"),
     Step("dispatch477", "unlock", "struct_mutex", "dispatch478"),
     Step("dispatch478", "lock", "lock", "dispatch479"),
     Step("dispatch479", "lock", "struct_mutex", "dispatch481"),
     Step("dispatch481", "unlock", "lock", "dispatch514"),
     Step("dispatch514", "unlock", "struct_mutex", "thread793")}

\* complete_current_workload: with a request or without, events triggered
\* or not
complete_current_workload ==
    {Step("complete653", "lock", "sched_lock", "complete660"),
     Step("complete660", "skip", "lock", "complete705"),
     Step("complete660", "skip", "lock", "complete688"),
     Step("complete660", "skip", "lock", "complete694"),
     Step("complete688", "lock", "lock", "complete692"),
     Step("complete692", "unlock", "lock", "complete694"),
     Step("complete694", "lock", "struct_mutex", "complete697"),
     Step("complete697", "unlock", "struct_mutex", "complete705"),
     Step("complete705", "lock", "lock", "complete723"),
     Step("complete723", "unlock", "lock", "complete724"),
     Step("complete724", "unlock", "sched_lock", "pick")}

\* thread t takes step s: mutex_lock waits until the lock is free
Take(t, s) ==
    /\ pc[t] = s.from
    /\ s.op = "lock" => holder[s.l] = 0
    /\ holder' = IF s.op = "lock" THEN [holder EXCEPT ![s.l] = t]
                 ELSE IF s.op = "unlock" THEN [holder EXCEPT ![s.l] = 0]
                 ELSE holder
    /\ pc' = [pc EXCEPT ![t] = s.to]
    /\ UNCHANGED dvars

MmioTrap == \E t \in TrapThreads, s \in mmio_trap : Take(t, s)
GdrstMmioWrite == \E t \in TrapThreads, s \in gdrst_mmio_write : Take(t, s)
RingModeMmioWrite ==
    \E t \in TrapThreads, s \in ring_mode_mmio_write : Take(t, s)
WorkloadThread == \E t \in WorkloadThreads, s \in workload_thread : Take(t, s)
DispatchWorkloadLocks ==
    \E t \in WorkloadThreads, s \in dispatch_workload_locks : Take(t, s)
CompleteCurrentWorkload ==
    \E t \in WorkloadThreads, s \in complete_current_workload : Take(t, s)

\* the device as intel_gvt_init_gtt leaves it, untouched, and the threads
LockInit ==
    /\ InitDevice
    /\ LocksFree
    /\ left = NoBudget
    /\ env = NoEnv
    /\ mem = SameImg(ImgEmpty)
    /\ oos = [o \in 1 .. preallocated_oos_pages |-> [mem |-> ZeroPage, gp |-> 0]]
    /\ free = [o \in 1 .. preallocated_oos_pages |-> o]

LockNext ==
    \/ MmioTrap
    \/ GdrstMmioWrite
    \/ RingModeMmioWrite
    \/ WorkloadThread
    \/ DispatchWorkloadLocks
    \/ CompleteCurrentWorkload

LockSpec == LockInit /\ [][LockNext]_vars

(***************************************************************************)
(* Properties.                                                             *)
(***************************************************************************)
\* the last operation met no failure of the hypervisor or of the allocator
\* and did not bring the kernel down
Clean == ~last.hvf /\ ~last.aff /\ ~last.crash /\ ~last.uaf

\* no tracked page of vGPU v is out of sync and no post-shadow index pends
InSync(v) ==
    /\ vg[v].oosl = <<>>
    /\ vg[v].psl = <<>>
    /\ \A id \in DOMAIN spt :
          spt[id].vgpu = v => spt[id].oos = 0 /\ spt[id].psb = {}

\* the frame a shadow entry of table type t targets
ShadowTarget(t, se) == gen8_gtt_get_pfn(get_entry_type(t), se)

\* shadow entry se targets a live shadow page of v that tracks guest frame g
TargetsTracker(v, se, g) ==
    /\ se \div GTT_PAGE_SIZE \in DOMAIN spt
    /\ spt[se \div GTT_PAGE_SIZE].vgpu = v
    /\ spt[se \div GTT_PAGE_SIZE].gfn = g

RECURSIVE Covered(_, _, _, _)
\* the guest table of type t at frame g of vGPU v, and every guest table
\* reachable from it, is covered by shadow page s and what s leads to
Covered(v, g, t, s) ==
    \A i \in PtIdx :
        gen8_gtt_test_present(get_entry_type(t), mem[v][g][i]) =>
            /\ gen8_gtt_test_present(get_entry_type(t), spt[s].ent[i])
            /\ IF gtt_type_is_pte_pt(t) \/ Bit(mem[v][g][i], PAGE_PSE)
                 THEN spt[s].ent[i] \div GTT_PAGE_SIZE
                        = GfnToMfn(v, mem[v][g][i] \div GTT_PAGE_SIZE)
               ELSE /\ mem[v][g][i] \div GTT_PAGE_SIZE \in GFNS
                    /\ TargetsTracker(v, spt[s].ent[i],
                                      mem[v][g][i] \div GTT_PAGE_SIZE)
                    /\ Covered(v, mem[v][g][i] \div GTT_PAGE_SIZE,
                               get_next_pt_type(t),
                               spt[s].ent[i] \div GTT_PAGE_SIZE)

\* every guest table reachable from the root of mm m is covered
RootsCovered(m) ==
    \A i \in RootIdx :
        mm[m].vpt[i] # 0 =>
            /\ mm[m].vpt[i] \div GTT_PAGE_SIZE \in GFNS
            /\ TargetsTracker(mm[m].vgpu, mm[m].sroot[i],
                              mm[m].vpt[i] \div GTT_PAGE_SIZE)
            /\ Covered(mm[m].vgpu, mm[m].vpt[i] \div GTT_PAGE_SIZE,
                       get_next_pt_type(RootType(mm[m].level)),
                       mm[m].sroot[i] \div GTT_PAGE_SIZE)

\* C1: in a state where no page of the VM is out of sync and no post-shadow
\* index pends, every present entry of every guest table reachable from a
\* shadowed mm's root has a shadow entry at the same index that targets the
\* hypervisor's translation of the entry's frame (leaf) or a live shadow page
\* tracking the frame (directory).  Stated for the states a create that met
\* no failure leaves.
C1_Coverage ==
    (last.op = "create" /\ last.ret = "OK" /\ Clean) =>
        \A m \in DOMAIN mm :
            (mm[m].shadowed /\ InSync(mm[m].vgpu)) => RootsCovered(m)

\* the present shadow slots, in root tables and in live shadow pages of the
\* VM of shadow page s, whose frame is the machine frame of s
Referrers(s) ==
    {x \in {"root"} \X (DOMAIN mm) \X RootIdx :
        /\ mm[x[2]].vgpu = spt[s].vgpu
        /\ mm[x[2]].sroot[x[3]] # 0
        /\ mm[x[2]].sroot[x[3]] \div GTT_PAGE_SIZE = s}
    \cup
    {x \in {"spt"} \X (DOMAIN spt) \X PtIdx :
        /\ spt[x[2]].vgpu = spt[s].vgpu
        /\ ~gtt_type_is_pte_pt(spt[x[2]].stype)
        /\ Bit(spt[x[2]].ent[x[3]], PAGE_PRESENT)
        /\ spt[x[2]].ent[x[3]] \div GTT_PAGE_SIZE = s}

\* C2: after every operation, failed ones included, the reference count of
\* each live shadow page equals the number of present shadow entries of its
\* VM, in root tables and live shadow pages, that target its machine frame.
C2_NoDangling ==
    (~last.crash /\ ~last.uaf) =>
        \A s \in DOMAIN spt : spt[s].ref = Cardinality(Referrers(s))

\* the first mm with pin count zero of a list noted by reclaim_one_mm
FirstUnpinned(n) == Head(SelectSeq(n.lru, LAMBDA m : n.pin[m] = 0))

UntranslatableLeafWrite ==
    /\ last.op = "trap"
    /\ last.bytes = 8
    /\ Clean
    /\ ~vg[last.v].gce
    /\ Bit(last.val, PAGE_PRESENT)
    /\ last.a \in DOMAIN spt
    /\ gtt_type_is_pte_pt(spt[last.a].stype)
    /\ GfnToMfn(last.v, last.val \div GTT_PAGE_SIZE) = INTEL_GVT_INVALID_ADDR

\* C4: a trapped write that installs a present leaf entry whose guest frame
\* the hypervisor cannot translate returns an error.
C4_UntranslatableFails == UntranslatableLeafWrite => last.ret # "OK"

\* C5: a GGTT entry write, a trapped page-table write, a populate (create or
\* pin), an OOS sync or a post-shadow flush in which a hypervisor call
\* (read_gpa, write_gpa, gfn_to_mfn, set or unset write protection) failed
\* returns an error.
C5_HvFailurePropagates ==
    (/\ last.op \in {"ggtt", "trap", "create", "pin", "sync", "flush"}
     /\ last.hvf
     /\ ~last.crash
     /\ ~last.uaf) => last.ret # "OK"


\* C6: an invalidation or root teardown that meets a present, non-scratch
\* shadow entry whose target shadow page cannot be found (-ENXIO) fails, and
\* the failure reaches its caller: no operation ever has invalidate_mm throw
\* such a failure away.
C6_MissingSptReported ==
    (~last.crash /\ ~last.uaf) => "ENXIO" \notin last.dropped

\* C7: a workload's request is handed to the physical device only after its
\* prepare step has run under the global lock and succeeded; a workload
\* whose prepare step failed, or never ran, is not submitted.
C7_SubmitOnlyPrepared ==
    (last.op = "dispatch" /\ last.sub /\ ~last.crash /\ ~last.uaf)
        => (last.locked /\ last.prep = "OK")

\* the guest's own walk: the last-level entry the guest tables of vGPU v give
\* for the indices idx below entry e, 0 when a level is absent or large
RECURSIVE GuestWalk(_, _, _)
GuestWalk(v, e, idx) ==
    IF ~Bit(e, PAGE_PRESENT) THEN 0
    ELSE IF idx = <<>> THEN e
    ELSE IF Bit(e, PAGE_PSE) \/ e \div GTT_PAGE_SIZE \notin GFNS THEN 0
    ELSE GuestWalk(v, mem[v][e \div GTT_PAGE_SIZE][Head(idx)], Tail(idx))

\* the last-level guest entry for gma in the address space of mm m
GuestLeaf(m, gma) ==
    GuestWalk(mm[m].vgpu,
              mm[m].vpt[IF mm[m].level = 4 THEN 0
                        ELSE gen8_gma_to_l3_pdp_index(gma)],
              GmaIndex(mm[m].level, gma))

\* this step looks gma up in the mm the step before created and populated,
\* nothing having failed, and the guest tables map gma
FreshLookup ==
    /\ last.op = "create" /\ last.ret = "OK" /\ Clean
    /\ last'.op = "walk" /\ ~last'.hvf
    /\ last'.a \in DOMAIN mm
    /\ mm[last'.a].vgpu = last.v
    /\ mm[last'.a].level = last.a
    /\ mm[last'.a].vpt[0] = last.val
    /\ GuestLeaf(last'.a, last'.val) # 0

RECURSIVE WalkAbsent(_, _, _)
WalkAbsent(v, e, idx) ==
    IF ~Bit(e, PAGE_PRESENT) THEN TRUE
    ELSE IF idx = <<>> THEN FALSE
    ELSE IF e \div GTT_PAGE_SIZE \notin DOMAIN spt THEN TRUE
    ELSE IF spt[e \div GTT_PAGE_SIZE].vgpu # v THEN TRUE
    ELSE IF Len(idx) = 1
      THEN ~Bit(mem[v][spt[e \div GTT_PAGE_SIZE].gfn][Head(idx)], PAGE_PRESENT)
    ELSE WalkAbsent(v, spt[e \div GTT_PAGE_SIZE].ent[Head(idx)], Tail(idx))

\* the lookup that ran last was in a PPGTT mm and met an absent entry
PpgttAbsent ==
    /\ last.op = "walk" /\ ~last.hvf /\ ~last.uaf
    /\ last.a \in DOMAIN mm
    /\ WalkAbsent(mm[last.a].vgpu,
                  mm[last.a].sroot[IF mm[last.a].level = 4 THEN 0
                                   ELSE gen8_gma_to_l3_pdp_index(last.val)],
                  GmaIndex(mm[last.a].level, last.val))

\* the lookup that ran last was in the GGTT and met an absent entry
GgttAbsent ==
    /\ last.op = "ggttwalk"
    /\ vgpu_gmadr_is_valid(last.val)
    /\ ~Bit(gg[last.v].vpt[gma_to_ggtt_pte_index(last.val)], PAGE_PRESENT)

\* C9: intel_vgpu_gma_to_gpa returns INTEL_GVT_INVALID_ADDR, for an mm of
\* either type, whenever an entry on the walk for the gma is absent or a
\* lower-level shadow page cannot be found; so it does for every gma of a
\* 4-level PPGTT mm created with an all-zero root.
C9_AbsentIsInvalid ==
    (PpgttAbsent \/ GgttAbsent) => last.gpa = INTEL_GVT_INVALID_ADDR

\* what intel_vgpu_sync_oos_pages may change: the shadow pages with their
\* entries, the OOS pages with their snapshots, and the lists
SyncState == <<spt, oos, vg, free, use, hwp>>

LeafWriteStep ==
    /\ last'.op = "trap" /\ last'.bytes = 8
    /\ ~last'.hvf /\ ~last'.aff /\ ~last'.crash /\ ~last'.uaf
    /\ last'.a \in DOMAIN spt
    /\ spt[last'.a].vgpu = last'.v
    /\ gtt_type_is_pte_pt(spt[last'.a].stype)
    /\ spt[last'.a].wp
    /\ ~vg[last'.v].gce
    /\ Bit(last'.val, PAGE_PRESENT)
    /\ GfnToMfn(last'.v, last'.val \div GTT_PAGE_SIZE) # INTEL_GVT_INVALID_ADDR

PteTrapStep ==
    /\ last'.op = "trap" /\ last'.ret = "OK"
    /\ ~last'.hvf /\ ~last'.aff /\ ~last'.crash /\ ~last'.uaf
    /\ last'.a \in DOMAIN spt /\ last'.a \in DOMAIN spt'
    /\ spt[last'.a].vgpu = last'.v
    /\ gtt_type_is_pte_pt(spt[last'.a].gtype)
    /\ spt[last'.a].wp

\* shadow page id is out of sync: not write-protected, with an attached
\* buffer that is in use and on the out-of-sync list of its vGPU
OutOfSync(id) ==
    /\ ~spt[id].wp
    /\ <<spt[id].vgpu, spt[id].gfn>> \notin hwp
    /\ spt[id].oos # 0
    /\ oos[spt[id].oos].gp = id
    /\ InSeq(use, spt[id].oos)
    /\ InSeq(vg[spt[id].vgpu].oosl, spt[id].oos)

\* shadow page id is out of sync after the step
OutOfSyncNext(id) ==
    /\ ~spt'[id].wp
    /\ <<spt'[id].vgpu, spt'[id].gfn>> \notin hwp'
    /\ spt'[id].oos # 0
    /\ oos'[spt'[id].oos].gp = id
    /\ InSeq(use', spt'[id].oos)
    /\ InSeq(vg'[spt'[id].vgpu].oosl, spt'[id].oos)

C14_PinnedSurvivesDestroy ==
    [][last'.op = "destroy" =>
          \A m \in DOMAIN mm :
              mm[m].pin > 0 =>
                  /\ m \in DOMAIN mm'
                  /\ mm'[m].shadowed = mm[m].shadowed
                  /\ mm'[m].sroot = mm[m].sroot]_vars


\* C15: after intel_vgpu_pin_mm returned 0 the pin count of the mm is one
\* higher than before, the mm is shadowed, and it is the last element of the
\* LRU list, where it appears exactly once.
C15_PinEffect ==
    [][(last'.op = "pin" /\ last'.ret = "OK") =>
          /\ last'.a \in DOMAIN mm /\ last'.a \in DOMAIN mm'
          /\ mm'[last'.a].pin = mm[last'.a].pin + 1
          /\ mm'[last'.a].shadowed
          /\ lru' # <<>>
          /\ lru'[Len(lru')] = last'.a
          /\ Cardinality({k \in 1 .. Len(lru') : lru'[k] = last'.a}) = 1]_vars

\* a pin that had to shadow the mm first (it allocated shadow pages), with
\* another mm on the LRU list
C15_Witness ==
    /\ last.op = "pin" /\ last.ret = "OK"
    /\ last.alc # <<>>
    /\ Len(lru) >= 2
    /\ mm[last.a].pin = 1


\* how often x occurs in the sequence l
Occurs(l, x) == Cardinality({k \in 1 .. Len(l) : l[k] = x})

\* C16: after every operation each OOS buffer is on exactly one of the free
\* list and the in-use list; it is on the in-use list exactly when it is
\* attached to a guest page; and attachment is mutual: the page a buffer
\* points at points back at it, and the buffer a page points at points back
\* at the page.
C16_OosPool ==
    /\ \A o \in DOMAIN oos :
          /\ Occurs(free, o) + Occurs(use, o) = 1
          /\ Occurs(use, o) = 1 <=> oos[o].gp # 0
          /\ oos[o].gp # 0 =>
                (oos[o].gp \in DOMAIN spt /\ spt[oos[o].gp].oos = o)
    /\ \A id \in DOMAIN spt :
          spt[id].oos # 0 =>
              (spt[id].oos \in DOMAIN oos /\ oos[spt[id].oos].gp = id)

\* a buffer has been taken from one page and attached to another, and is
\* the only one
C16_Witness ==
    /\ last.op = "trap" /\ last.ret = "OK"
    /\ Len(use) = 1 /\ free = <<>>
    /\ \E id \in DOMAIN spt :
          /\ id # last.a
          /\ gtt_type_is_pte_pt(spt[id].gtype)
          /\ spt[id].wp /\ spt[id].oos = 0 /\ spt[id].wcnt = 0
    /\ spt[last.a].oos # 0
    /\ ~spt[last.a].wp


\* buffer o is detached, in the step taken, from page id that was out of
\* sync before it
DetachedFrom(o, id) ==
    /\ id \in DOMAIN spt
    /\ OutOfSync(id)
    /\ spt[id].oos = o
    /\ oos'[o].gp # id

C19_ScratchFill ==
    (Clean /\ last.ret = "OK") =>
        \A id \in DOMAIN spt : \A j \in PtIdx :
            (spt[id].wp /\ spt[id].ref > 0
               /\ ~gen8_gtt_test_present(get_entry_type(spt[id].gtype),
                                         mem[spt[id].vgpu][spt[id].gfn][j]))
              => /\ spt[id].ent[j] # 0
                 /\ gen8_gtt_get_pfn(get_entry_type(spt[id].stype),
                                     spt[id].ent[j])
                      = scratch_pt(spt[id].vgpu, spt[id].stype)


\* C20: when the g2v notification that creates or destroys a PPGTT mm
\* fails, the PV-info MMIO write handler returns that failure to the MMIO
\* trap handler.
C20_G2vFailureReturned ==
    (last.op \in {"create", "destroy"} /\ last.ret # "OK")
        => last.mmio = last.ret


\* the order the locks are to be taken in
Rank(l) == CASE l = "sched_lock" -> 1 [] l = "lock" -> 2 [] l = "struct_mutex" -> 3

\* the steps a thread can take from where it is, under places p
StepsAt(p, t) ==
    {s \in mmio_trap \cup gdrst_mmio_write \cup ring_mode_mmio_write
             \cup workload_thread \cup dispatch_workload_locks
             \cup complete_current_workload : s.from = p[t]}

\* under holders h and places p some threads wait for one another for ever:
\* each can only take a lock that another of them holds
Deadlocked(h, p) ==
    \E S \in SUBSET Threads :
        /\ S # {}
        /\ \A t \in S : \A s \in StepsAt(p, t) :
              s.op = "lock" /\ h[s.l] \in S

\* C18: no thread takes sched_lock while it holds gvt->lock, and every lock
\* is taken in the order sched_lock, gvt->lock, struct_mutex; a trap handler
\* returns holding gvt->lock only, as on entry; and no set of threads ends
\* up waiting for one another.
C18_LockOrder ==
    [][/\ \A t \in Threads : \A l \in Locks :
             (holder[l] # t /\ holder'[l] = t) =>
                 \A h \in Locks : holder[h] = t => Rank(h) < Rank(l)
       /\ \A t \in TrapThreads :
             pc'[t] = "ret" => {l \in Locks : holder'[l] = t} = {"lock"}
       /\ ~Deadlocked(holder', pc')]_vars

\* a trap handler has given up gvt->lock and taken sched_lock, and waits
\* for gvt->lock, which the other virtual CPU's trap holds, while a workload
\* thread waits for sched_lock
C18_Witness ==
    /\ pc[1] = "gdrst312"
    /\ holder["sched_lock"] = 1
    /\ holder["lock"] = 2
    /\ pc[3] = "thread791"


\* C21: when validate_ggtt_range has returned, the length is 0 or the whole
\* range [start, start + length - 1] lies inside the vGPU's aperture range
\* or inside its hidden range, so that a PV insert or clear writes no entry
\* of the global table outside the vGPU's own ranges
C21_ValidatedRangeInside ==
    last.op \in {"pv_insert", "pv_clear"} =>
        /\ \/ last.length = 0
           \/ /\ last.start >= vgpu_aperture_gmadr_base(last.v)
              /\ last.start + last.length - 1 <= vgpu_aperture_gmadr_end(last.v)
           \/ /\ last.start >= vgpu_hidden_gmadr_base(last.v)
              /\ last.start + last.length - 1 <= vgpu_hidden_gmadr_end(last.v)
        /\ \A i \in last.touched :
              \/ /\ i * GTT_PAGE_SIZE >= vgpu_aperture_gmadr_base(last.v)
                 /\ i * GTT_PAGE_SIZE <= vgpu_aperture_gmadr_end(last.v)
              \/ /\ i * GTT_PAGE_SIZE >= vgpu_hidden_gmadr_base(last.v)
                 /\ i * GTT_PAGE_SIZE <= vgpu_hidden_gmadr_end(last.v)


\* C22: after intel_vgpu_reset_gtt of a VM, whatever state it was in, the VM
\* has no live shadow page, no PPGTT mm of the VM is on the mm list or on the
\* LRU list, no OOS buffer is attached to a page of the VM (a buffer that was
\* is on the free list), its out-of-sync list and its post-shadow list are
\* empty, and the guest's view of its GGTT is as it was
C22_ResetGtt ==
    [][last'.op = "reset" =>
          /\ \A id \in DOMAIN spt' : spt'[id].vgpu # last'.v
          /\ \A m \in DOMAIN mm' : mm'[m].vgpu # last'.v
          /\ \A k \in 1 .. Len(lru') :
                lru'[k] \in DOMAIN mm' /\ mm'[lru'[k]].vgpu # last'.v
          /\ \A o \in DOMAIN oos :
                (oos[o].gp \in DOMAIN spt /\ spt[oos[o].gp].vgpu = last'.v) =>
                    /\ oos'[o].gp = 0
                    /\ Occurs(free', o) = 1 /\ Occurs(use', o) = 0
          /\ \A o \in DOMAIN oos' :
                oos'[o].gp # 0 =>
                    (oos'[o].gp \in DOMAIN spt'
                       /\ spt'[oos'[o].gp].vgpu # last'.v)
          /\ vg'[last'.v].oosl = <<>>
          /\ vg'[last'.v].psl = <<>>
          /\ gg'[last'.v].vpt = gg[last'.v].vpt]_vars

\* a VM with a shadowed mm, a page out of sync with a buffer attached and a
\* page awaiting the post-shadow flush has been reset
C22_Witness ==
    /\ last.op = "reset"
    /\ last.gone # {}
    /\ \E o \in DOMAIN oos : oos[o].gp = 0 /\ oos[o].mem # ZeroPage


\* in the state a step leads to, slot i of shadow page id holds what the
\* write-interception algorithm makes of the guest entry at index i: the
\* scratch frame of the page's level when the guest entry is absent, the
\* guest's flags over the host frame when it maps memory, and the shadow
\* page tracking the guest's table when it points at a table
ReshadowedNext(id, i) ==
    /\ id \in DOMAIN spt'
    /\ IF ~gen8_gtt_test_present(get_entry_type(spt'[id].gtype),
                                 mem'[spt'[id].vgpu][spt'[id].gfn][i])
         THEN /\ spt'[id].ent[i] # 0
              /\ gen8_gtt_get_pfn(get_entry_type(spt'[id].stype),
                                  spt'[id].ent[i])
                   = scratch_pt(spt'[id].vgpu, spt'[id].stype)
       ELSE IF gtt_type_is_pte_pt(spt'[id].stype)
         THEN spt'[id].ent[i]
                = Ent(GfnToMfn(spt'[id].vgpu,
                               mem'[spt'[id].vgpu][spt'[id].gfn][i]
                                 \div GTT_PAGE_SIZE),
                      mem'[spt'[id].vgpu][spt'[id].gfn][i] % GTT_PAGE_SIZE)
       ELSE /\ spt'[id].ent[i] \div GTT_PAGE_SIZE \in DOMAIN spt'
            /\ spt'[spt'[id].ent[i] \div GTT_PAGE_SIZE].vgpu = spt'[id].vgpu
            /\ spt'[spt'[id].ent[i] \div GTT_PAGE_SIZE].gfn
                 = mem'[spt'[id].vgpu][spt'[id].gfn][i] \div GTT_PAGE_SIZE

\* C23: after intel_vgpu_flush_post_shadow returned 0 the VM's post-shadow
\* list is empty, every shadow page that was on it has an empty post-shadow
\* bitmap, and each index that was marked has been re-shadowed from the
\* guest entry as it is now; when it returned an error, a mark is still set
\* with its page still on the list unless it has been processed
C23_FlushPostShadow ==
    [][last'.op = "flush" =>
          /\ last'.ret = "OK" => vg'[last'.v].psl = <<>>
          /\ \A k \in 1 .. Len(vg[last'.v].psl) :
                \A i \in spt[vg[last'.v].psl[k]].psb :
                    \/ /\ last'.ret # "OK"
                       /\ vg[last'.v].psl[k] \in DOMAIN spt'
                       /\ i \in spt'[vg[last'.v].psl[k]].psb
                       /\ InSeq(vg'[last'.v].psl, vg[last'.v].psl[k])
                    \/ /\ vg[last'.v].psl[k] \in DOMAIN spt'
                       /\ i \notin spt'[vg[last'.v].psl[k]].psb
                       /\ last'.ret = "OK" =>
                              spt'[vg[last'.v].psl[k]].psb = {}
                       /\ ReshadowedNext(vg[last'.v].psl[k], i)]_vars


\* this step is a trapped full-size write, returning 0, of a present guest
\* entry to a live shadowed table
PresentWriteStep ==
    /\ last'.op = "trap" /\ last'.bytes = 8 /\ last'.ret = "OK"
    /\ last'.a \in DOMAIN spt
    /\ gen8_gtt_test_present(get_entry_type(spt[last'.a].gtype), last'.val)

\* the k-th thing the step did was a store to the slot that was written
StoresSlot(k) ==
    /\ "set" \in DOMAIN last'.ev[k]
    /\ last'.ev[k].set = last'.a
    /\ last'.ev[k].i = last'.i

\* C24: in a trapped full-entry write of a present guest entry the new shadow
\* entry is stored in the slot before anything the old shadow entry led to is
\* freed, and nothing else is ever stored in the slot: no store of an absent
\* entry or of the scratch frame, and no free of a shadow page before the
\* store of the new entry
C24_AddBeforeRemoval ==
    [][PresentWriteStep =>
          /\ \E k \in 1 .. Len(last'.ev) : StoresSlot(k)
          /\ \A k \in 1 .. Len(last'.ev) :
                /\ StoresSlot(k) =>
                      /\ gen8_gtt_test_present(
                             get_entry_type(spt[last'.a].stype),
                             last'.ev[k].val)
                      /\ gen8_gtt_get_pfn(get_entry_type(spt[last'.a].stype),
                                          last'.ev[k].val)
                           # scratch_pt(last'.v, spt[last'.a].stype)
                /\ "free" \in DOMAIN last'.ev[k] =>
                      \E j \in 1 .. k - 1 : StoresSlot(j)]_vars


\* this step is a trapped full-size write, returning 0, of an absent guest
\* entry to a live shadowed table
AbsentWriteStep ==
    /\ last'.op = "trap" /\ last'.bytes = 8 /\ last'.ret = "OK"
    /\ last'.a \in DOMAIN spt
    /\ ~gen8_gtt_test_present(get_entry_type(spt[last'.a].gtype), last'.val)

\* the shadow page that the entry se of a table of type t leads to: 0 when
\* the entry is absent, targets the scratch frame of vGPU v, or maps memory
SubTable(v, t, se) ==
    IF /\ gen8_gtt_test_present(get_entry_type(t), se)
       /\ gen8_gtt_get_pfn(get_entry_type(t), se) # scratch_pt(v, t)
       /\ gtt_type_is_pt(get_next_pt_type(
              gen8_gtt_test_pse(get_entry_type(t), se)))
      THEN gen8_gtt_get_pfn(get_entry_type(t), se)
    ELSE 0

\* C25: when a trapped full-entry write makes the guest entry absent, the
\* shadow slot ends up targeting the scratch frame of the table's level, and
\* the shadow sub-table the old shadow entry pointed at has lost exactly one
\* reference (it is freed when that was its last)
C25_RemovalEffect ==
    [][AbsentWriteStep =>
          /\ last'.a \in DOMAIN spt'
          /\ gen8_gtt_get_pfn(get_entry_type(spt[last'.a].stype),
                              spt'[last'.a].ent[last'.i])
               = scratch_pt(last'.v, spt[last'.a].stype)
          /\ SubTable(last'.v, spt[last'.a].stype,
                      spt[last'.a].ent[last'.i]) \in DOMAIN spt =>
                IF SubTable(last'.v, spt[last'.a].stype,
                            spt[last'.a].ent[last'.i]) \in DOMAIN spt'
                  THEN spt'[SubTable(last'.v, spt[last'.a].stype,
                                     spt[last'.a].ent[last'.i])].ref
                         = spt[SubTable(last'.v, spt[last'.a].stype,
                                        spt[last'.a].ent[last'.i])].ref - 1
                ELSE spt[SubTable(last'.v, spt[last'.a].stype,
                                  spt[last'.a].ent[last'.i])].ref = 1]_vars


C27_TypeConsistency ==
    \A id \in DOMAIN spt : \A i \in PtIdx :
        SubTable(spt[id].vgpu, spt[id].stype, spt[id].ent[i]) # 0 =>
            /\ SubTable(spt[id].vgpu, spt[id].stype, spt[id].ent[i])
                 \in DOMAIN spt
            /\ spt[SubTable(spt[id].vgpu, spt[id].stype, spt[id].ent[i])].vgpu
                 = spt[id].vgpu
            /\ spt[SubTable(spt[id].vgpu, spt[id].stype, spt[id].ent[i])].stype
                 = get_next_pt_type(spt[id].stype)


\* the paging level of a table type or of an entry type: 1 for a page table
\* and its entries, up to 5 for the root entries of a 4-level mm
Level(t) ==
    CASE t \in {"PTE_PT", "PTE_4K"} -> 1
      [] t \in {"PDE_PT", "PDE_E", "PTE_2M"} -> 2
      [] t \in {"PDP_PT", "PDP_E", "PTE_1G", "ROOT_L3"} -> 3
      [] t \in {"PML4_PT", "PML4_E"} -> 4
      [] t = "ROOT_L4" -> 5

\* C28: populating a shadow sub-tree terminates whatever the guest memory
\* holds: every call of ppgtt_populate_shadow_page_by_guest_entry builds a
\* table of a type strictly below the level of the entry it is given, a call
\* made d calls deep builds a table at least d - 1 levels below the top one,
\* and no call is more than four calls deep (the number of paging levels)
C28_PopulateTerminates ==
    \A k \in 1 .. Len(last.pop) :
        /\ Level(get_next_pt_type(last.pop[k].type)) < Level(last.pop[k].type)
        /\ Level(get_next_pt_type(last.pop[k].type)) + last.pop[k].depth
             <= Level("ROOT_L4")
        /\ last.pop[k].depth < Level("ROOT_L4")

\* a 4-level mm has been shadowed over a chain of four guest tables: the
\* deepest call, four calls deep, built the last-level table
C28_Witness ==
    /\ last.op = "create" /\ last.ret = "OK"
    /\ \E k \in 1 .. Len(last.pop) :
          /\ last.pop[k].depth = 4
          /\ last.pop[k].found = 0
          /\ get_next_pt_type(last.pop[k].type) = "PTE_PT"


\* the sync, in the step taken, of page id through its buffer o did what is
\* asked of it at index i: a slot whose buffered value differs from the live
\* guest value, or whose post-shadow bit is set, ends up with the translated
\* frame of a present guest entry and with the scratch frame for an absent
\* one, its bit cleared; any other slot is left as it was
SyncedSlotNext(o, id, i) ==
    IF oos[o].mem[i] # mem[spt[id].vgpu][spt[id].gfn][i] \/ i \in spt[id].psb
      THEN /\ i \notin spt'[id].psb
           /\ oos'[o].mem[i] = mem[spt[id].vgpu][spt[id].gfn][i]
           /\ IF gen8_gtt_test_present(get_entry_type(spt[id].gtype),
                                       mem[spt[id].vgpu][spt[id].gfn][i])
                THEN spt'[id].ent[i]
                       = gen8_gtt_set_pfn(
                             get_entry_type(spt[id].gtype),
                             mem[spt[id].vgpu][spt[id].gfn][i],
                             GfnToMfn(spt[id].vgpu,
                                      mem[spt[id].vgpu][spt[id].gfn][i]
                                          \div GTT_PAGE_SIZE))
              ELSE gen8_gtt_get_pfn(get_entry_type(spt[id].stype),
                                    spt'[id].ent[i])
                     = scratch_pt(spt[id].vgpu, spt[id].stype)
    ELSE spt'[id].ent[i] = spt[id].ent[i]

\* C29: after sync_oos_page returned 0 for a page (here: for every page that
\* a call of intel_vgpu_sync_oos_pages that returned 0 has synced), every
\* index whose buffered value differed from the live guest value or whose
\* post-shadow bit was set has its shadow slot re-shadowed from the live
\* guest entry (translated frame if present, scratch frame if absent), its
\* bit cleared and its buffered value brought up to date; every other slot
\* is unchanged; the buffer equals the live guest page and the write counter
\* of the page is 0.
C29_SyncOosPage ==
    [][(last'.op = "sync" /\ last'.ret = "OK") =>
         \A o \in last'.syn :
            (oos[o].gp \in DOMAIN spt) =>
               /\ oos[o].gp \in DOMAIN spt'
               /\ oos'[o].mem = mem[spt[oos[o].gp].vgpu][spt[oos[o].gp].gfn]
               /\ spt'[oos[o].gp].wcnt = 0
               /\ \A i \in PtIdx : SyncedSlotNext(o, oos[o].gp, i)]_vars


\* the k-th thing the last operation did was to enter invalidate_mm, whose
\* end is the e-th
InvalidateSpan(k, e) ==
    /\ k < e
    /\ "inval" \in DOMAIN last.ev[k]
    /\ "invald" \in DOMAIN last.ev[e]
    /\ \A j \in k + 1 .. e - 1 : "invald" \notin DOMAIN last.ev[j]

\* the shadow pages the present root slots of the mm noted at k pointed at
RootPages(k) ==
    {last.ev[k].mm.sroot[i] \div GTT_PAGE_SIZE : i \in
        {j \in RootIdx :
            gen8_gtt_test_present(RootType(last.ev[k].mm.level),
                                  last.ev[k].mm.sroot[j])}}

\* shadow page s was freed between the k-th and the e-th thing the last
\* operation did, after a reference on shadow page c was dropped
FreedAfterPut(k, e, s, c) ==
    \E j \in k + 1 .. e - 1 :
        /\ "free" \in DOMAIN last.ev[j]
        /\ last.ev[j].free = s
        /\ \E h \in k + 1 .. j - 1 :
              "put" \in DOMAIN last.ev[h] /\ last.ev[h].put = c

\* C30: when invalidate_mm has run on a shadowed PPGTT mm, every shadow root
\* slot of the mm is zero and the mm is marked unshadowed, the guest root
\* table of the mm is as it was, each shadow page a present root slot pointed
\* at has lost exactly one reference, no shadow page is left with a count of
\* zero (a page whose count reached zero has been freed), and a page that
\* was freed was freed after a reference was dropped on each shadow page its
\* present entries pointed at; and a later pin of the mm that returns 0 has shadowed it again.
C30_InvalidateMm ==
    /\ \A k \in 1 .. Len(last.ev) : \A e \in 1 .. Len(last.ev) :
          InvalidateSpan(k, e) =>
              /\ last.ev[e].mm.sroot = ZeroRoot
              /\ ~last.ev[e].mm.shadowed
              /\ last.ev[e].mm.vpt = last.ev[k].mm.vpt
              /\ \A s \in RootPages(k) :
                    /\ s \in DOMAIN last.ev[k].spt
                    /\ IF s \in DOMAIN last.ev[e].spt
                         THEN last.ev[e].spt[s].ref
                                = last.ev[k].spt[s].ref - 1
                       ELSE last.ev[k].spt[s].ref = 1
              /\ \A s \in DOMAIN last.ev[e].spt :
                    s \in DOMAIN last.ev[k].spt /\ last.ev[k].spt[s].ref > 0
                        => last.ev[e].spt[s].ref > 0
              /\ \A s \in DOMAIN last.ev[k].spt \ DOMAIN last.ev[e].spt :
                    \A i \in PtIdx :
                       (/\ ~gtt_type_is_pte_pt(last.ev[k].spt[s].stype)
                        /\ gen8_gtt_test_present(
                               get_entry_type(last.ev[k].spt[s].stype),
                               last.ev[k].spt[s].ent[i])
                        /\ last.ev[k].spt[s].ent[i] \div GTT_PAGE_SIZE
                              \in DOMAIN last.ev[k].spt)
                         => FreedAfterPut(k, e, s,
                                last.ev[k].spt[s].ent[i] \div GTT_PAGE_SIZE)
    /\ (last.op = "pin" /\ last.ret = "OK") =>
          /\ mm[last.a].shadowed
          /\ \A i \in RootIdx :
                gen8_gtt_test_present(RootType(mm[last.a].level),
                                      mm[last.a].vpt[i])
                  => gen8_gtt_test_present(RootType(mm[last.a].level),
                                           mm[last.a].sroot[i])


\* a present entry of a table of type t with the page-size bit set, in a
\* table whose entries can have one (a page directory or a PDP table)
LargeEntry(t, val) ==
    /\ gen8_gtt_test_present(get_entry_type(t), val)
    /\ ~gtt_type_is_pt(get_next_pt_type(
           gen8_gtt_test_pse(get_entry_type(t), val)))

\* this step is a trapped full-size write of a large-page entry to a
\* write-protected directory-level table, the entry being read back as written
LargeWriteStep ==
    /\ last'.op = "trap" /\ last'.bytes = 8
    /\ ~last'.hvf /\ ~last'.crash /\ ~last'.uaf
    /\ last'.a \in DOMAIN spt
    /\ spt[last'.a].wp
    /\ ~vg[last'.v].gce
    /\ ~gtt_type_is_pte_pt(spt[last'.a].gtype)
    /\ LargeEntry(spt[last'.a].gtype, last'.val)

\* C31: a present directory-level guest entry with the page-size bit set is
\* never shadowed: a trapped write of such an entry fails with an error and
\* stores nothing for it in the shadow table, a populate that succeeded for a
\* directory-level table found no such entry in it, and no live
\* directory-level shadow page holds a present entry with the bit set.
C31_LargePagesRejected ==
    [][/\ LargeWriteStep =>
             /\ last'.ret # "OK"
             /\ \A k \in 1 .. Len(last'.ev) :
                   ("set" \in DOMAIN last'.ev[k]
                      /\ last'.ev[k].set = last'.a /\ last'.ev[k].i = last'.i)
                     => ~gen8_gtt_test_present(
                             get_entry_type(spt[last'.a].stype),
                             last'.ev[k].val)
       /\ (last'.op \in {"create", "pin"} /\ ~last'.hvf /\ ~last'.crash
             /\ ~last'.uaf) =>
             \A k \in 1 .. Len(last'.pop) :
                (/\ last'.pop[k].fresh /\ last'.pop[k].ret = "OK"
                 /\ ~gtt_type_is_pte_pt(get_next_pt_type(last'.pop[k].type)))
                  => \A i \in PtIdx :
                        ~LargeEntry(get_next_pt_type(last'.pop[k].type),
                                    mem[last'.pop[k].v][last'.pop[k].gfn][i])
       /\ \A s \in DOMAIN spt' : \A i \in PtIdx :
             ~gtt_type_is_pte_pt(spt'[s].stype)
                => ~LargeEntry(spt'[s].stype, spt'[s].ent[i])]_vars


\* C32: an operation in which an allocation failure made reclaim_one_mm tear
\* an mm down never goes on to read or write a shadow page that the teardown
\* freed; in particular the shadow page a trapped write is updating is not
\* freed by a reclamation inside that write.
C32_ReclaimSparesWorkingSet ==
    (/\ last.op \in {"trap", "create", "pin"}
     /\ \E k \in 1 .. Len(last.recl) : last.recl[k].m # 0)
        => /\ ~last.uaf
           /\ last.op = "trap" => last.a \notin last.gone


\* C33: a call of ppgtt_populate_shadow_page_by_guest_entry that returns an
\* error leaves no trace: no shadow page that it allocated is still live (in
\* the hash tables) and no reference count is higher than before the call
\* (stated for operations in which no mm was reclaimed, so that the pages
\* live before and after the call can be compared one to one).
C33_FailedPopulateLeavesNoTrace ==
    (\A j \in 1 .. Len(last.recl) : last.recl[j].m = 0) =>
        \A k \in 1 .. Len(last.pop) :
            last.pop[k].ret # "OK" =>
                last.pop[k].left = {} /\ last.pop[k].up = {}


\* C34: when intel_vgpu_pin_mm fails because shadowing the mm fails, the
\* pin count of the mm is what it was before the call.
C34_FailedPinKeepsCount ==
    [][(/\ last'.op = "pin" /\ last'.ret # "OK"
        /\ last'.a \in DOMAIN mm /\ last'.a \in DOMAIN mm'
        /\ ~mm[last'.a].shadowed)
          => mm'[last'.a].pin = mm[last'.a].pin]_vars


\* C35: the machine frame gtt_entry_p2m hands out for a present guest entry
\* of VM v with guest frame g is the hypervisor's translation of g for v,
\* whatever was translated before, for this VM or for another one.
C35_TranslationIsTheHypervisors ==
    \A k \in 1 .. Len(last.ev) :
        "p2m" \in DOMAIN last.ev[k] =>
            last.ev[k].mfn = GfnToMfn(last.ev[k].p2m, last.ev[k].gfn)


\* buffer o, attached to shadow page g of another VM than the one whose
\* write is handled in the step taken, is synced in that step
ForeignSyncNext(o, g) ==
    /\ last'.op = "trap"
    /\ o \in last'.syn
    /\ oos[o].gp = g
    /\ g \in DOMAIN spt /\ g \in DOMAIN spt'
    /\ spt[g].vgpu # last'.v

\* C36: when the oldest in-use buffer is taken from its page for a page of
\* another VM, the forced sync works on the owner: the owner's guest frame is
\* write-protected again, no frame of the requesting VM becomes
\* write-protected by it, and each shadow slot whose buffered value differs
\* from the owner's live guest entry is shadowed again from that entry,
\* translated for the owner.
C36_ForcedSyncOnOwner ==
    [][\A o \in DOMAIN oos : \A g \in DOMAIN spt :
          ForeignSyncNext(o, g) =>
              /\ <<spt[g].vgpu, spt[g].gfn>> \in hwp'
              /\ <<last'.v, spt[g].gfn>> \in hwp'
                    => <<last'.v, spt[g].gfn>> \in hwp
              /\ \A i \in PtIdx :
                    oos[o].mem[i] # mem[spt[g].vgpu][spt[g].gfn][i] =>
                        spt'[g].ent[i]
                          = IF gen8_gtt_test_present(
                                   get_entry_type(spt[g].gtype),
                                   mem[spt[g].vgpu][spt[g].gfn][i])
                              THEN gen8_gtt_set_pfn(
                                       get_entry_type(spt[g].gtype),
                                       mem[spt[g].vgpu][spt[g].gfn][i],
                                       GfnToMfn(spt[g].vgpu,
                                           mem[spt[g].vgpu][spt[g].gfn][i]
                                               \div GTT_PAGE_SIZE))
                            ELSE mem[spt[g].vgpu][spt[g].gfn][i]]_vars


\* C37: after every completed operation each tracked guest page-table page
\* is in one of two modes: write-protected (by the hypervisor, for its VM)
\* with no buffer of it on the VM's out-of-sync list, or not write-protected
\* with an OOS buffer attached that is on the VM's out-of-sync list; only
\* PTE-level pages are in the second mode.
C37_TwoModes ==
    (~last.crash /\ ~last.uaf) =>
        \A id \in DOMAIN spt :
            IF spt[id].wp
              THEN /\ <<spt[id].vgpu, spt[id].gfn>> \in hwp
                   /\ \A k \in 1 .. Len(vg[spt[id].vgpu].oosl) :
                         oos[vg[spt[id].vgpu].oosl[k]].gp # id
            ELSE /\ spt[id].oos # 0
                 /\ \E k \in 1 .. Len(vg[spt[id].vgpu].oosl) :
                       vg[spt[id].vgpu].oosl[k] = spt[id].oos
                 /\ gtt_type_is_pte_pt(spt[id].gtype)


\* C38: no operation that creates, destroys or pins an mm, handles a trapped
\* write, flushes post-shadow entries or resets a vGPU calls invalidate_mm on
\* an mm that is not shadowed (nor shadow_mm on one that is): the WARN_ON at
\* the head of the function does not fire.
C38_InvalidateOnlyShadowed ==
    last.op \in {"create", "destroy", "pin", "trap", "flush", "reset"}
        => ~last.warn


\* C39: after every completed operation a shadow page is on the post-shadow
\* list of its VM if and only if its post-shadow bitmap has a bit set.
C39_PostShadowListMatchesBitmap ==
    (~last.crash /\ ~last.uaf) =>
        \A id \in DOMAIN spt :
            (\E k \in 1 .. Len(vg[spt[id].vgpu].psl) :
                 vg[spt[id].vgpu].psl[k] = id)
              <=> spt[id].psb # {}


\* C40: the guest-entry page cache of a VM is enabled only while
\* ppgtt_populate_shadow_page fills a PTE-level table: after every completed
\* operation, whether it succeeded or failed, ge_cache_enable is false.
C40_GeCacheOffOutsidePopulate ==
    (~last.crash /\ ~last.uaf) => \A v \in VGPUS : ~vg[v].gce

====
